---- MODULE Spec2Model ----
(***************************************************************************)
(* State-machine model of the transport simulation kernel:                 *)
(*   - the maintenance resource pool of BaseManager                        *)
(*     (src/src/environment/base_manager.py),                              *)
(*   - the vehicle agent (src/src/agents/vehicle_agent.py),                *)
(*   - the station agent and its Contract Net initiator                    *)
(*     (src/src/agents/station_agent.py, src/src/protocols/contract_net.py)*)
(* Each component has its own specification (SpecPool, SpecVehicle,        *)
(* SpecCNP); the variables of the other components stay at their initial   *)
(* values in it.                                                           *)
(***************************************************************************)
EXTENDS Integers, Sequences, FiniteSets, TLC

VARIABLES
    resources_in_use,   \* BaseManager.resources_in_use: [tools, tow_hooks]
    last_call,          \* the last pool call: its arguments, result and pre-state
    assigned_route,     \* VehicleAgent.assigned_route.stations (sequence of cells)
    current_position,   \* VehicleAgent.current_position
    current_station_index, \* VehicleAgent.current_station_index (1-based here)
    next_station,       \* VehicleAgent.next_station
    state,              \* VehicleAgent.state: EN_ROUTE, AT_STATION, BROKEN
    is_broken,          \* VehicleAgent.is_broken
    breakdown_type,     \* VehicleAgent.breakdown_type ("none" for None)
    occupancy,          \* VehicleAgent.occupancy
    passengers_onboard, \* VehicleAgent.passengers_onboard: id -> destination
    passengers,         \* VehicleAgent.passengers (legacy list): destinations
    boarding_in_progress, \* VehicleAgent.boarding_in_progress
    boarding_ticks,     \* VehicleAgent.boarding_ticks
    arrival_pending,    \* a scheduled _on_arrival_to_station task has not run yet
    repair_jobs,        \* number of crews holding a repair job for this vehicle
    outbox,             \* the messages the vehicle's last step sent
    last_op,            \* the vehicle's last step: its kind and its input
    passenger_queue_len, \* len(StationAgent.passenger_queue)
    active_contracts,   \* ContractNetInitiator.active_contracts, in order of creation
    cfp_inbox,          \* CFPs sent and not yet handled: <<contract id, participant>>
    cnp_sent,           \* the ACCEPT and REJECT messages the initiator has sent, in order
    agent_registry,     \* BaseManager.agent_registry: the registered agent ids
    agents_at_base,     \* BaseManager.agents_at_base: base type -> parked agents
    last_park,          \* the last park/deploy call: its result, and whether the depot was full
    message_queues,     \* LocalMessageBus.message_queues: jid -> queue
    message_log,        \* LocalMessageBus.message_log, kept per recipient
    bus_received,       \* what receive_message has returned, per agent
    local_queues,       \* base_agent._local_queues: jid -> deque
    local_agents,       \* the jids a BaseTransportAgent was constructed for
    local_sent,         \* what send_message has appended, per recipient
    local_received,     \* what MessageReceiverBehaviour has popped, per agent
    next_msg_id,        \* the number of the next send
    last_send,          \* the last send: its route, recipient, and whether it was registered
    passenger_queue,    \* StationAgent.passenger_queue, oldest first
    current_tick,       \* StationAgent.current_tick
    now,                \* the wall clock, in minutes
    passengers_created, \* how many passengers have joined the queue so far
    last_arrival,       \* the VEHICLE_ARRIVED the station's last step handled: the queue before and after, the reply
    crews,              \* the MaintenanceAgent of every crew jid
    base_position,      \* the Position object main.py hands to every crew, in half cells
    alert_queues,       \* the BREAKDOWN_ALERT messages in each crew's queue
    broken_vehicles,    \* the vehicles that send the alerts
    accepted,           \* the jobs the crews have accepted so far
    completed_sent,     \* how many MAINTENANCE_COMPLETED each crew has sent, per vehicle and breakdown
    demo_vehicles,      \* the trams of DemoSimulation.vehicles
    maintenance_agents, \* DemoSimulation.maintenance_agents
    position_occupancy, \* TrafficManager.position_occupancy, cell by cell
    blocked_rails,      \* TrafficManager.blocked_rails
    demo_pc,            \* the loop and the index update_simulation has reached
    simulation_time,    \* DemoSimulation.simulation_time, the ticks begun
    reports_handled,    \* the contracts whose winner's CONTRACT_NET_INFORM the station has handled
    award_task,         \* the task of the contract whose proposals are evaluated
    award_proposals,    \* its 'proposals' dict in key order, each proposal with the number of its reception
    award_received,     \* how many proposals handle_proposal has stored for it
    award_winner,       \* what evaluate_proposals returned at the deadline, 0 before it and for None
    award_closed,       \* collect_proposals has run for it
    message_history,    \* BaseTransportAgent.message_history, as the types of the messages handled
    subscription_calls, \* the subscribe_to_messages calls made on the agent: the types asked for, what the caller got
    fleet,              \* the vehicles that call at the station: occupancy and passengers_onboard of each
    station_inbox,      \* the VEHICLE_ARRIVED messages in the station's queue, oldest first
    vehicle_inbox,      \* the BOARDING_LIST and PASSENGER_REQUEST messages in each vehicle's queue, oldest first
    boarding_requested, \* the passenger agents that have sent their boarding request
    arrivals_sent,      \* how many arrivals the vehicles have made
    last_boarding,      \* the BOARDING_LIST a vehicle's last step handled, and its passengers_onboard after it
    loop_ticks,         \* how many iterations each tick loop has started
    entity_updates,     \* how many of its updates each entity has completed
    loop_running,       \* the tick loops that are still running
    loop_log,           \* the last iteration: its loop, the entity whose update raised, the entities it left out
    fuel_level          \* the fuel of every vehicle of the mock simulation

poolVars == <<resources_in_use, last_call>>

vehicleVars == <<assigned_route, current_position, current_station_index,
                 next_station, state, is_broken, breakdown_type, occupancy,
                 passengers_onboard, passengers, boarding_in_progress,
                 boarding_ticks, arrival_pending, repair_jobs, outbox, last_op>>

stationVars == <<passenger_queue_len, active_contracts, cfp_inbox, cnp_sent>>

depotVars == <<agent_registry, agents_at_base, last_park>>

busVars == <<message_queues, message_log, bus_received, local_queues,
             local_agents, local_sent, local_received, next_msg_id, last_send>>

queueVars == <<passenger_queue, current_tick, now, passengers_created,
               last_arrival>>

crewVars == <<crews, base_position, alert_queues, broken_vehicles, accepted,
              completed_sent>>

demoVars == <<demo_vehicles, maintenance_agents, position_occupancy, blocked_rails,
              demo_pc, simulation_time>>

reportVars == <<reports_handled>>

awardVars == <<award_task, award_proposals, award_received, award_winner, award_closed>>

subscribeVars == <<message_history, subscription_calls>>

transferVars == <<fleet, station_inbox, vehicle_inbox, boarding_requested, arrivals_sent, last_boarding>>

loopVars == <<loop_ticks, entity_updates, loop_running, loop_log>>

fuelVars == <<fuel_level>>

\* what the steps of one component leave alone
notPoolVars == <<vehicleVars, stationVars, depotVars, busVars, queueVars, crewVars, demoVars, reportVars, awardVars, subscribeVars, transferVars, loopVars, fuelVars>>

notVehicleVars == <<poolVars, stationVars, depotVars, busVars, queueVars, crewVars, demoVars, reportVars, awardVars, subscribeVars, transferVars, loopVars, fuelVars>>

notStationVars == <<poolVars, vehicleVars, depotVars, busVars, queueVars, crewVars, demoVars, reportVars, awardVars, subscribeVars, transferVars, loopVars, fuelVars>>

notDepotVars == <<poolVars, vehicleVars, stationVars, busVars, queueVars, crewVars, demoVars, reportVars, awardVars, subscribeVars, transferVars, loopVars, fuelVars>>

notBusVars == <<poolVars, vehicleVars, stationVars, depotVars, queueVars, crewVars, demoVars, reportVars, awardVars, subscribeVars, transferVars, loopVars, fuelVars>>

notQueueVars == <<poolVars, vehicleVars, stationVars, depotVars, busVars, crewVars, demoVars, reportVars, awardVars, subscribeVars, transferVars, loopVars, fuelVars>>

notCrewVars == <<poolVars, vehicleVars, stationVars, depotVars, busVars, queueVars, demoVars, reportVars, awardVars, subscribeVars, transferVars, loopVars, fuelVars>>

\* the mock simulation works on the pool and the depots of its BaseManager
notDemoVars == <<vehicleVars, stationVars, busVars, queueVars, crewVars, reportVars, awardVars, subscribeVars, transferVars, loopVars>>

notReportVars == <<poolVars, vehicleVars, stationVars, depotVars, busVars, queueVars, crewVars, demoVars, awardVars, subscribeVars, transferVars, loopVars, fuelVars>>

notAwardVars == <<poolVars, vehicleVars, stationVars, depotVars, busVars, queueVars, crewVars, demoVars, reportVars, subscribeVars, transferVars, loopVars, fuelVars>>

notSubscribeVars == <<poolVars, vehicleVars, stationVars, depotVars, busVars, queueVars, crewVars, demoVars, reportVars, awardVars, transferVars, loopVars, fuelVars>>

\* the boarding at a station works on the station's queue
notTransferVars == <<poolVars, vehicleVars, stationVars, depotVars, busVars, crewVars, demoVars, reportVars, awardVars, subscribeVars, loopVars, fuelVars>>

notLoopVars == <<poolVars, vehicleVars, stationVars, depotVars, busVars, queueVars, crewVars, demoVars, reportVars, awardVars, subscribeVars, transferVars, fuelVars>>

------------------------------------------------------------------------------
(* Helpers *)

Max(a, b) == IF a >= b THEN a ELSE b

Min(a, b) == IF a <= b THEN a ELSE b

------------------------------------------------------------------------------
(* Resource pool: BaseManager, maintenance base *)

\* bases['maintenance'].tools
MaintenanceTools == 8

\* bases['maintenance'].tow_hooks
MaintenanceTowHooks == 2

\* largest tool amount a caller passes to request/release
MaxToolAmount == 9

\* largest tow-hook amount a caller passes to request/release
MaxTowAmount == 3

PoolInit ==
    /\ resources_in_use = [tools |-> 0, tow_hooks |-> 0]
    /\ last_call = [op |-> "none", tools |-> 0, tow_hooks |-> 0, result |-> FALSE,
                    before |-> [tools |-> 0, tow_hooks |-> 0]]

available_tools == MaintenanceTools - resources_in_use.tools

available_tow_hooks == MaintenanceTowHooks - resources_in_use.tow_hooks

\* mutant: reserves whichever resource is available, even when the other is not
request_resources_partial(tools, tow_hooks) ==
    LET ok == tools <= available_tools /\ tow_hooks <= available_tow_hooks IN
    /\ resources_in_use' =
          [tools |-> IF tools <= available_tools
                     THEN resources_in_use.tools + tools
                     ELSE resources_in_use.tools,
           tow_hooks |-> IF tow_hooks <= available_tow_hooks
                         THEN resources_in_use.tow_hooks + tow_hooks
                         ELSE resources_in_use.tow_hooks]
    /\ last_call' = [op |-> "request", tools |-> tools, tow_hooks |-> tow_hooks,
                     result |-> ok, before |-> resources_in_use]

\* BaseManager.request_resources(tools, tow_hooks)
request_resources(tools, tow_hooks) ==
    LET ok == tools <= available_tools /\ tow_hooks <= available_tow_hooks IN
    /\ resources_in_use' =
          IF ok
          THEN [tools |-> resources_in_use.tools + tools,
                tow_hooks |-> resources_in_use.tow_hooks + tow_hooks]
          ELSE resources_in_use
    /\ last_call' = [op |-> "request", tools |-> tools, tow_hooks |-> tow_hooks,
                     result |-> ok, before |-> resources_in_use]

\* mutant: subtracts without clamping at zero
release_resources_unclamped(tools, tow_hooks) ==
    /\ resources_in_use' =
          [tools |-> resources_in_use.tools - tools,
           tow_hooks |-> resources_in_use.tow_hooks - tow_hooks]
    /\ last_call' = [op |-> "release", tools |-> tools, tow_hooks |-> tow_hooks,
                     result |-> TRUE, before |-> resources_in_use]

\* mutant: gives back the tools and keeps the tow hooks
release_resources_tools_only(tools, tow_hooks) ==
    /\ resources_in_use' =
          [tools |-> Max(0, resources_in_use.tools - tools),
           tow_hooks |-> resources_in_use.tow_hooks]
    /\ last_call' = [op |-> "release", tools |-> tools, tow_hooks |-> tow_hooks,
                     result |-> TRUE, before |-> resources_in_use]

\* BaseManager.release_resources(tools, tow_hooks)
release_resources(tools, tow_hooks) ==
    /\ resources_in_use' =
          [tools |-> Max(0, resources_in_use.tools - tools),
           tow_hooks |-> Max(0, resources_in_use.tow_hooks - tow_hooks)]
    /\ last_call' = [op |-> "release", tools |-> tools, tow_hooks |-> tow_hooks,
                     result |-> TRUE, before |-> resources_in_use]

RequestResources ==
    /\ \E tools \in 0..MaxToolAmount, tow_hooks \in 0..MaxTowAmount :
          request_resources(tools, tow_hooks)
    /\ UNCHANGED notPoolVars

ReleaseResources ==
    /\ \E tools \in 0..MaxToolAmount, tow_hooks \in 0..MaxTowAmount :
          release_resources(tools, tow_hooks)
    /\ UNCHANGED notPoolVars

NextPool ==
    \/ RequestResources
    \/ ReleaseResources

------------------------------------------------------------------------------
(* Vehicle agent: VehicleAgent.  The grid is one row of cells, so a Position *)
(* is its x coordinate and every step between two stations is a whole cell.  *)
(* Fuel is left out: _advance_along_route refuels before the level can stop  *)
(* the vehicle, and no handler below reads it.                               *)

\* passenger capacity of the vehicle (kwargs 'capacity', else the class default)
Capacity == 3

\* the most initial passengers a caller constructs a vehicle with
MaxInitialPassengers == 1

\* number of distinct passenger ids that messages name
NumPassengerIds == 2

\* longest BOARDING_LIST delivered to a vehicle
MaxBoardingList == 2

\* VehicleAgent.MAX_BOARDING_TICKS
MAX_BOARDING_TICKS == 3

\* SIMULATION_CONFIG['vehicle']['speed'] * speed_modifier (1.0)
movement_speed == 1

\* city.stations: the cells of the stations; station_<i> is at CityStations[i]
CityStations == <<0, 2, 3>>

StationCells == {CityStations[i] : i \in DOMAIN CityStations}

\* the routes a vehicle is constructed with (main.py closes the loop with the
\* first station)
Routes == {<<0, 2, 3, 0>>}

PassengerIds == 1..NumPassengerIds

\* this vehicle's id, and the ids a MAINTENANCE_COMPLETED can carry
vehicle_id == "vehicle_0"

VehicleIds == {"vehicle_0", "vehicle_1"}

\* SIMULATION_CONFIG['city']['num_maintenance_crews']
num_maintenance_crews == 3

\* the registered maintenance crews (maintenance_crews_jids)
maintenance_crews_jids == 1..num_maintenance_crews

BreakdownTypes == {"tire", "engine", "tow"}

\* next_station is None
NoStation == -1

\* the longest route that replaces the vehicle's route
MaxReplacedRoute == 2

\* the routes that can take the place of the vehicle's route: any stations,
\* none included
ReplacedRoutes == UNION {[1..n -> StationCells] : n \in 0..MaxReplacedRoute}

\* VehicleAgent._get_station_id_at_position / StationAgent._get_station_id_at_position
station_id_at_position(position) ==
    IF \E i \in DOMAIN CityStations : CityStations[i] = position
    THEN <<"station", CHOOSE i \in DOMAIN CityStations :
                        /\ CityStations[i] = position
                        /\ \A j \in DOMAIN CityStations :
                              CityStations[j] = position => i <= j>>
    ELSE <<"station_at", position>>

\* the destination of the passenger record with this id: a station id in a
\* BOARDING_LIST entry, the station's cell in a boarding request
PassengerDestination(pid) == <<"station", (pid % Len(CityStations)) + 1>>

PassengerDestinationCell(pid) == CityStations[(pid % Len(CityStations)) + 1]

BoardingEntries == {[id |-> p, destination |-> PassengerDestination(p)] : p \in PassengerIds}

\* the "passengers" field of a BOARDING_LIST body: the station pops each
\* listed passenger off its queue, so a list names an id once
BoardingLists ==
    {body \in UNION {[1..n -> BoardingEntries] : n \in 0..MaxBoardingList} :
        \A i, j \in DOMAIN body : body[i].id = body[j].id => i = j}

\* initial_passengers as main.py (5..min(15, capacity // 3) PassengerInfo whose
\* destination is a later route station) and the coordinator (none) pass them
InitialPassengers(route) ==
    UNION {[1..n -> {route[i] : i \in 2..Len(route)}] :
             n \in 0..Min(MaxInitialPassengers, Capacity \div 3)}

EmptyDict == [p \in {} |-> <<"station", 0>>]

DictPut(d, k, val) == [p \in (DOMAIN d) \cup {k} |-> IF p = k THEN val ELSE d[p]]

DictWithout(d, ks) == [p \in (DOMAIN d) \ ks |-> d[p]]

Message(type, to, info) == [type |-> type, to |-> to, info |-> info]

\* the vehicle agent's fields as one record
V == [route |-> assigned_route, pos |-> current_position,
      idx |-> current_station_index, next |-> next_station, state |-> state,
      broken |-> is_broken, kind |-> breakdown_type, occ |-> occupancy,
      onboard |-> passengers_onboard, legacy |-> passengers,
      bip |-> boarding_in_progress, bticks |-> boarding_ticks,
      pending |-> arrival_pending, jobs |-> repair_jobs, out |-> {}]

SetVehicle(v) ==
    /\ assigned_route' = v.route
    /\ current_position' = v.pos
    /\ current_station_index' = v.idx
    /\ next_station' = v.next
    /\ state' = v.state
    /\ is_broken' = v.broken
    /\ breakdown_type' = v.kind
    /\ occupancy' = v.occ
    /\ passengers_onboard' = v.onboard
    /\ passengers' = v.legacy
    /\ boarding_in_progress' = v.bip
    /\ boarding_ticks' = v.bticks
    /\ arrival_pending' = v.pending
    /\ repair_jobs' = v.jobs
    /\ outbox' = v.out
    /\ UNCHANGED notVehicleVars

\* what the vehicle's last step was: the handler, its input, (for a
\* MAINTENANCE_COMPLETED) the state the vehicle was in when it arrived, and
\* how many iterations of VehicleMainBehaviour.run have found the vehicle
\* AT_STATION and not broken since it arrived there
Op(kind, arg, body) ==
    [kind |-> kind, arg |-> arg, body |-> body,
     before_state |-> IF kind = "maintenance_completed" THEN state ELSE "",
     ticks_at_station |->
         IF kind = "arrival" THEN 0
         ELSE IF kind # "tick" THEN last_op.ticks_at_station
         ELSE IF /\ state = "AT_STATION" /\ ~is_broken
                 /\ (next_station # NoStation \/ Len(assigned_route) > 0)
              THEN last_op.ticks_at_station + 1
              ELSE IF state = "EN_ROUTE" THEN 0
                   ELSE last_op.ticks_at_station]

\* VehicleAgent.__init__
VehicleInit ==
    /\ assigned_route \in Routes
    /\ current_position = assigned_route[1]
    /\ current_station_index = 1
    /\ next_station = IF Len(assigned_route) > 1 THEN assigned_route[2]
                                                 ELSE assigned_route[1]
    /\ passengers \in InitialPassengers(assigned_route)
    /\ passengers_onboard = EmptyDict
    /\ occupancy = Len(passengers)
    /\ state = "EN_ROUTE"
    /\ is_broken = FALSE
    /\ breakdown_type = "none"
    /\ boarding_in_progress = FALSE
    /\ boarding_ticks = 0
    /\ arrival_pending = FALSE
    /\ repair_jobs = 0
    /\ outbox = {}
    /\ last_op = [kind |-> "init", arg |-> "", body |-> <<>>, before_state |-> "",
                  ticks_at_station |-> 0]

\* VehicleAgent._advance_to_next_station
advance_to_next_station(v) ==
    LET n == Len(v.route)
        cand(k) == ((v.idx - 1 + k) % n) + 1
        found == {k \in 1..n : v.route[cand(k)] # v.pos}
    IN IF found # {}
       THEN LET k == CHOOSE a \in found : \A b \in found : a <= b
            IN [v EXCEPT !.idx = cand(k), !.next = v.route[cand(k)]]
       ELSE [v EXCEPT !.idx = cand(1), !.next = v.route[cand(1)]]

\* VehicleAgent._depart_from_station
depart_from_station(v) == advance_to_next_station([v EXCEPT !.state = "EN_ROUTE"])

\* mutant: the vehicle waits for the boarding to end, however long
handle_station_stop_logic_waiting(v) ==
    IF v.bip
    THEN [v EXCEPT !.bticks = v.bticks + 1]
    ELSE depart_from_station(v)

\* VehicleAgent._handle_station_stop_logic
handle_station_stop_logic(v) ==
    IF v.bip
    THEN IF v.bticks + 1 > MAX_BOARDING_TICKS
         THEN depart_from_station([v EXCEPT !.bticks = v.bticks + 1, !.bip = FALSE])
         ELSE [v EXCEPT !.bticks = v.bticks + 1]
    ELSE depart_from_station(v)

\* mutant: the recovery takes the first station of the route, wherever the
\* vehicle is
recover_next_station_first(v) ==
    IF Len(v.route) > 0
    THEN [v EXCEPT !.next = v.route[1], !.idx = 1]
    ELSE v

\* VehicleAgent._recover_next_station
recover_next_station(v) ==
    IF Len(v.route) > 0
    THEN LET differing == {i \in DOMAIN v.route : v.route[i] # v.pos}
         IN IF differing # {}
            THEN LET i == CHOOSE a \in differing : \A b \in differing : a <= b
                 IN [v EXCEPT !.next = v.route[i], !.idx = i]
            ELSE [v EXCEPT !.next = v.route[1]]
    ELSE v

\* the next_station a tick goes on with after that test: the one it had, or
\* the one _recover_next_station leaves
validated(v) == IF v.next = NoStation THEN recover_next_station(v) ELSE v

\* what the test at the start of the tick did, as the body of the step:
\* nothing, or the next_station the recovery left
recovery_made(v) ==
    IF v.next = NoStation THEN <<recover_next_station(v).next>> ELSE <<>>

\* VehicleAgent._move_step, entered with a next_station (_advance_along_route
\* and update_vehicle_state have checked it)
move_step(v) ==
    LET distance_to_next == IF v.next >= v.pos THEN v.next - v.pos ELSE v.pos - v.next
    IN IF distance_to_next <= movement_speed
       THEN [v EXCEPT !.pos = v.next]
       ELSE [v EXCEPT !.pos = IF v.next > v.pos THEN v.pos + movement_speed
                                                ELSE v.pos - movement_speed]

\* VehicleAgent._has_arrived_at_station
has_arrived_at_station(v) == v.next # NoStation /\ v.pos = v.next

\* VehicleAgent.update_vehicle_state
update_vehicle_state(v) ==
    LET w == validated(v)
    IN IF w.next = NoStation
       THEN w
       ELSE IF w.broken \/ w.state = "BROKEN"
            THEN w
            ELSE IF w.state = "EN_ROUTE"
                 THEN LET m == move_step(w)
                      IN IF has_arrived_at_station(m) THEN [m EXCEPT !.pending = TRUE] ELSE m
                 ELSE IF w.state = "AT_STATION"
                      THEN handle_station_stop_logic(w)
                      ELSE w

\* VehicleAgent.check_vehicle_health; roll is the outcome of the random draw.
\* Of the crews that receive the alert one takes the job
\* (MaintenanceAgent.handle_breakdown_alert: a crew ignores the alert when
\* it sees that it or another crew already holds a job for the vehicle).
check_vehicle_health(v, roll) ==
    IF ~v.broken /\ roll \in BreakdownTypes
    THEN [v EXCEPT !.kind = roll, !.broken = TRUE, !.state = "BROKEN",
                   !.jobs = 1,
                   !.out = v.out \cup
                       {Message("BREAKDOWN_ALERT", c, <<roll, v.pos, v.occ>>) :
                            c \in maintenance_crews_jids}]
    ELSE v

\* VehicleAgent._alight_passengers_at_station
alight_passengers_at_station(v) ==
    LET current_station_id == station_id_at_position(v.pos)
        alighting_pids == {p \in DOMAIN v.onboard : v.onboard[p] = current_station_id}
        NotHere(dest) == dest # v.pos
    IN [v EXCEPT !.onboard = DictWithout(v.onboard, alighting_pids),
                 !.occ = v.occ - Cardinality(alighting_pids),
                 !.legacy = SelectSeq(v.legacy, NotHere),
                 !.out = v.out \cup
                     {Message("TRIP_COMPLETED", <<"passenger", p>>, current_station_id) :
                          p \in alighting_pids}]

\* VehicleAgent._send_vehicle_arrived_message
send_vehicle_arrived_message(v) ==
    [v EXCEPT !.out = v.out \cup
        {Message("VEHICLE_ARRIVED", station_id_at_position(v.pos), <<Capacity, v.occ>>)}]

\* VehicleAgent._on_arrival_to_station
on_arrival_to_station(v) ==
    LET a == send_vehicle_arrived_message(
                 alight_passengers_at_station([v EXCEPT !.state = "AT_STATION"]))
    IN [a EXCEPT !.bip = TRUE, !.bticks = 0, !.pending = FALSE]

RECURSIVE board_each(_, _)
\* the loop of VehicleAgent.handle_boarding_list over the listed passengers
board_each(v, ps) ==
    IF ps = <<>>
    THEN v
    ELSE IF v.occ >= Capacity
         THEN v
         ELSE board_each(
                  [v EXCEPT !.onboard = DictPut(v.onboard, Head(ps).id, Head(ps).destination),
                            !.occ = v.occ + 1,
                            !.out = v.out \cup
                                {Message("BOARDING_CONFIRMED", <<"passenger", Head(ps).id>>, <<>>)}],
                  Tail(ps))

RECURSIVE board_each_unchecked(_, _)
board_each_unchecked(v, ps) ==
    IF ps = <<>>
    THEN v
    ELSE board_each_unchecked(
             [v EXCEPT !.onboard = DictPut(v.onboard, Head(ps).id, Head(ps).destination),
                       !.occ = v.occ + 1,
                       !.out = v.out \cup
                           {Message("BOARDING_CONFIRMED", <<"passenger", Head(ps).id>>, <<>>)}],
             Tail(ps))

\* mutant: boards every listed passenger without the capacity check
handle_boarding_list_unchecked(v, body) == board_each_unchecked(v, body)

\* VehicleAgent.handle_boarding_list
handle_boarding_list(v, body) == board_each(v, body)

\* VehicleAgent.handle_passenger_request (the second definition, which is the
\* one the class keeps)
handle_passenger_request(v, passenger_id, request_type, destination) ==
    IF request_type = "availability_check"
    THEN [v EXCEPT !.out = v.out \cup
             {Message("VEHICLE_CAPACITY", <<"passenger", passenger_id>>, <<Capacity - v.occ, v.occ>>)}]
    ELSE IF request_type = "boarding_request"
         THEN IF Capacity - v.occ > 0 /\ ~v.broken
              THEN [v EXCEPT !.onboard = DictPut(v.onboard, passenger_id, <<"position", destination>>),
                             !.occ = v.occ + 1,
                             !.out = v.out \cup
                                 {Message("PASSENGER_RESPONSE", <<"passenger", passenger_id>>, "accepted")}]
              ELSE [v EXCEPT !.out = v.out \cup
                       {Message("PASSENGER_RESPONSE", <<"passenger", passenger_id>>, "rejected")}]
         ELSE v

\* VehicleAgent.handle_maintenance_completed, on the message that
\* MaintenanceAgent.finish_current_job sends when a crew ends its job
handle_maintenance_completed(v, msg_vehicle_id) ==
    IF msg_vehicle_id # vehicle_id
    THEN v
    ELSE LET r == [v EXCEPT !.broken = FALSE, !.kind = "none", !.jobs = v.jobs - 1]
         IN IF Len(v.route) > 0
            THEN IF v.pos = v.route[v.idx]
                 THEN [r EXCEPT !.state = "AT_STATION"]
                 ELSE [r EXCEPT !.state = "EN_ROUTE"]
            ELSE [r EXCEPT !.state = "EN_ROUTE"]

\* one iteration of VehicleMainBehaviour.run: update_vehicle_state, then the
\* periodic check_vehicle_health when its counter is due (which iteration that
\* is, and what the random draw gives, is the choice of roll; "none" covers
\* both "not due" and "no breakdown drawn").  The iteration then sleeps, and a
\* scheduled arrival task runs before the next iteration starts.
Tick ==
    /\ ~arrival_pending
    /\ \E roll \in BreakdownTypes \cup {"none"} :
          /\ SetVehicle(check_vehicle_health(update_vehicle_state(V), roll))
          /\ last_op' = Op("tick", "", recovery_made(V))

\* the task update_vehicle_state scheduled with asyncio.create_task
OnArrivalToStation ==
    /\ arrival_pending
    /\ SetVehicle(on_arrival_to_station(V))
    /\ last_op' = Op("arrival", "", <<>>)

\* handle_message, BOARDING_LIST
HandleBoardingList ==
    \E body \in BoardingLists :
        /\ SetVehicle(handle_boarding_list(V, body))
        /\ last_op' = Op("boarding_list", "", body)

\* handle_message, PASSENGER_REQUEST
HandlePassengerRequest ==
    \E passenger_id \in PassengerIds,
       request_type \in {"availability_check", "boarding_request"} :
        /\ SetVehicle(handle_passenger_request(V, passenger_id, request_type,
                                               PassengerDestinationCell(passenger_id)))
        /\ last_op' = Op("passenger_request", request_type, <<>>)

\* handle_message, MAINTENANCE_COMPLETED.  A crew sends one for this vehicle
\* only when it ends a job it holds for it, which takes the crew several of
\* its own ticks: a scheduled arrival task has run by then.
HandleMaintenanceCompleted ==
    \E msg_vehicle_id \in VehicleIds :
        /\ msg_vehicle_id = vehicle_id => repair_jobs > 0 /\ ~arrival_pending
        /\ SetVehicle(handle_maintenance_completed(V, msg_vehicle_id))
        /\ last_op' = Op("maintenance_completed", msg_vehicle_id, <<>>)

\* handle_message, CONTRACT_NET_ACCEPT: the branch calls
\* self.handle_contract_accepted, which VehicleAgent does not define; the
\* AttributeError is caught and printed by handle_message, so execute_contract
\* is never entered
handle_contract_accepted(v) == v

HandleContractAccept ==
    /\ SetVehicle(handle_contract_accepted(V))
    /\ last_op' = Op("contract_accept", "", <<>>)

\* the fault the test at the start of update_vehicle_state is there for:
\* between two ticks the route has been replaced and next_station is None (as
\* DynamicRouteAdapter.adapt_route leaves a vehicle whose new route has fewer
\* than two stations); current_station_index is left as it was
LoseNextStation ==
    /\ ~arrival_pending
    /\ next_station # NoStation
    /\ \E new_route \in ReplacedRoutes :
          SetVehicle([V EXCEPT !.route = new_route, !.next = NoStation])
    /\ last_op' = Op("adapt_route", "", <<>>)

NextRecover ==
    \/ LoseNextStation
    \/ Tick
    \/ OnArrivalToStation

NextVehicle ==
    \/ Tick
    \/ OnArrivalToStation
    \/ HandleBoardingList
    \/ HandlePassengerRequest
    \/ HandleMaintenanceCompleted
    \/ HandleContractAccept

------------------------------------------------------------------------------
(* Station agent and its Contract Net initiator: StationAgent,                *)
(* ContractNetInitiator.  The queue is kept as its length; a contract id is   *)
(* the contract's place in active_contracts (the code names it after the     *)
(* clock reading of its creation, and two creations read different clocks).   *)
(* Scores are kept as thousandths; the time between a proposal and its       *)
(* evaluation is counted as zero.                                            *)

\* SIMULATION_CONFIG['station']['overcrowding_threshold']
overcrowding_threshold == 20

\* SIMULATION_CONFIG['station']['max_queue_size']
max_queue_size == 100

\* SIMULATION_CONFIG['vehicle']['bus_capacity']
bus_capacity == 60

\* task_description['max_cost']
max_cost == 100

\* longest queue the station is driven to
MaxQueueLen == 22

\* most contracts the station initiates
MaxContracts == 2

\* number of vehicles in the station's vehicle_registry
NumParticipants == 2

ParticipantJids == 1..NumParticipants

\* StationAgent.requested_vehicles: created empty, and no statement of the
\* program adds to it
requested_vehicles == {}

\* what a bidding vehicle's create_proposal reads: its free capacity and its
\* distance to the station
BidInputs == {[capacity |-> 30, distance |-> 2], [capacity |-> 30, distance |-> 10]}

\* the station agent's fields as one record
S == [queue |-> passenger_queue_len, contracts |-> active_contracts,
      inbox |-> cfp_inbox, sent |-> cnp_sent]

SetStation(st) ==
    /\ passenger_queue_len' = st.queue
    /\ active_contracts' = st.contracts
    /\ cfp_inbox' = st.inbox
    /\ cnp_sent' = st.sent
    /\ UNCHANGED notStationVars

\* StationAgent.__init__, ContractNetInitiator.__init__
StationInit ==
    /\ passenger_queue_len = 0
    /\ active_contracts = <<>>
    /\ cfp_inbox = {}
    /\ cnp_sent = <<>>

\* VehicleAgent.create_proposal
create_proposal(sender, bid, task) ==
    [sender |-> sender,
     capacity |-> bid.capacity,
     capacity_is_number |-> TRUE,
     travel_half_minutes |-> bid.distance,
     cost |-> IF task.urgency = "high" THEN bid.distance * 3 ELSE bid.distance * 2]

\* ContractNetInitiator.calculate_proposal_score, in thousandths
calculate_proposal_score(proposal, task) ==
    300 * proposal.capacity
    + (IF task.urgency = "high"
       THEN 20 * Max(0, 20 - proposal.travel_half_minutes)
       ELSE 10 * Max(0, 40 - proposal.travel_half_minutes))
    + (300 * Max(0, task.max_cost - proposal.cost)) \div task.max_cost

RECURSIVE evaluate_from(_, _, _, _)
\* the loop of ContractNetInitiator.evaluate_proposals
evaluate_from(proposals, task, best_proposal, best_score) ==
    IF proposals = <<>>
    THEN best_proposal
    ELSE LET score == calculate_proposal_score(Head(proposals), task)
         IN IF score > best_score
            THEN evaluate_from(Tail(proposals), task, Head(proposals).sender, score)
            ELSE evaluate_from(Tail(proposals), task, best_proposal, best_score)

\* ContractNetInitiator.evaluate_proposals; 0 stands for None
evaluate_proposals(proposals, task) ==
    IF proposals = <<>> THEN 0 ELSE evaluate_from(proposals, task, 0, -1000)

RECURSIVE reject_others(_, _, _)
\* the rejection loop of ContractNetInitiator.award_contract
reject_others(proposals, contract_id, winner) ==
    IF proposals = <<>>
    THEN <<>>
    ELSE (IF Head(proposals).sender # winner
          THEN <<[type |-> "REJECT", to |-> Head(proposals).sender, contract_id |-> contract_id]>>
          ELSE <<>>)
         \o reject_others(Tail(proposals), contract_id, winner)

\* ContractNetInitiator.award_contract
award_contract(st, contract_id, winner) ==
    LET contract_info == st.contracts[contract_id]
    IN [st EXCEPT
          !.sent = st.sent
                   \o <<[type |-> "ACCEPT", to |-> winner, contract_id |-> contract_id]>>
                   \o reject_others(contract_info.proposals, contract_id, winner),
          !.contracts[contract_id].status = "awarded",
          !.contracts[contract_id].winner = winner]

\* mutant: at a deadline with no proposals, tells every participant it lost
collect_proposals_rejecting(st, contract_id) ==
    LET contract_info == st.contracts[contract_id]
        proposals == contract_info.proposals
        closed == [st EXCEPT !.contracts[contract_id].collected = Len(proposals)]
        to_all == [p \in ParticipantJids |-> [sender |-> p]]
    IN IF proposals = <<>>
       THEN [closed EXCEPT !.contracts[contract_id].status = "failed",
                           !.sent = st.sent \o reject_others(to_all, contract_id, 0)]
       ELSE LET winner == evaluate_proposals(proposals, contract_info.task)
            IN IF winner # 0
               THEN award_contract(closed, contract_id, winner)
               ELSE [closed EXCEPT !.contracts[contract_id].status = "failed"]

\* a body of a CONTRACT_NET_PROPOSAL message whose 'capacity' is not a number
malformed_proposal(sender) ==
    [sender |-> sender, capacity |-> 0, capacity_is_number |-> FALSE,
     travel_half_minutes |-> 0, cost |-> 0]

\* calculate_proposal_score raises a TypeError at proposal['capacity'] * 0.3
\* for one of the proposals
score_raises(proposals) ==
    \E i \in DOMAIN proposals : ~proposals[i].capacity_is_number

\* ContractNetInitiator.collect_proposals, from the end of its sleep;
\* collected records how many proposals it found.  What evaluate_proposals
\* raises ends the task: nothing catches it and the status stays as it was
collect_proposals(st, contract_id) ==
    LET contract_info == st.contracts[contract_id]
        proposals == contract_info.proposals
        closed == [st EXCEPT !.contracts[contract_id].collected = Len(proposals)]
    IN IF proposals = <<>>
       THEN [closed EXCEPT !.contracts[contract_id].status = "failed"]
       ELSE IF score_raises(proposals)
       THEN closed
       ELSE LET winner == evaluate_proposals(proposals, contract_info.task)
            IN IF winner # 0
               THEN award_contract(closed, contract_id, winner)
               ELSE [closed EXCEPT !.contracts[contract_id].status = "failed"]

\* contract_info['proposals'][sender] = proposal_data: a dict keeps a key's
\* place when its value is replaced
PutProposal(proposals, proposal) ==
    IF \E i \in DOMAIN proposals : proposals[i].sender = proposal.sender
    THEN [i \in DOMAIN proposals |->
             IF proposals[i].sender = proposal.sender THEN proposal ELSE proposals[i]]
    ELSE Append(proposals, proposal)

\* mutant: a proposal that comes in for a closed contract is evaluated again
handle_proposal_reopening(st, contract_id, proposal) ==
    IF contract_id \in DOMAIN st.contracts
    THEN LET stored == [st EXCEPT !.contracts[contract_id].proposals =
                           PutProposal(st.contracts[contract_id].proposals, proposal)]
         IN IF st.contracts[contract_id].collected >= 0
            THEN [stored EXCEPT
                    !.contracts[contract_id].status = "awarded",
                    !.contracts[contract_id].winner =
                        evaluate_proposals(stored.contracts[contract_id].proposals,
                                           stored.contracts[contract_id].task)]
            ELSE stored
    ELSE st

\* ContractNetInitiator.handle_proposal
handle_proposal(st, contract_id, proposal) ==
    IF contract_id \in DOMAIN st.contracts
    THEN [st EXCEPT !.contracts[contract_id].proposals =
                        PutProposal(st.contracts[contract_id].proposals, proposal)]
    ELSE st

\* ContractNetInitiator.initiate_cfp
initiate_cfp(st, task_description, participants) ==
    LET contract_id == Len(st.contracts) + 1
    IN [st EXCEPT
          !.contracts = Append(st.contracts,
                               [task |-> task_description,
                                participants |-> participants,
                                proposals |-> <<>>,
                                status |-> "cfp_sent",
                                winner |-> 0,
                                collected |-> -1]),
          !.inbox = st.inbox \cup {<<contract_id, p>> : p \in participants}]

\* StationAgent.request_additional_service; nearby_vehicles is what
\* get_nearby_vehicles returns
request_additional_service(st, nearby_vehicles) ==
    IF Cardinality(requested_vehicles) > 0
    THEN st
    ELSE IF nearby_vehicles = {}
         THEN st
         ELSE initiate_cfp(st,
                  [urgency |-> IF 2 * st.queue > 3 * overcrowding_threshold
                               THEN "high" ELSE "medium",
                   max_cost |-> max_cost],
                  nearby_vehicles)

\* StationAgent.add_passenger_to_queue
add_passenger_to_queue(st, nearby_vehicles) ==
    IF st.queue < max_queue_size
    THEN LET q == [st EXCEPT !.queue = st.queue + 1]
         IN IF q.queue > overcrowding_threshold
            THEN request_additional_service(q, nearby_vehicles)
            ELSE q
    ELSE st

\* StationAgent.check_service_needs; long_waiting_passengers is the number of
\* queued passengers past 80% of their patience
check_service_needs(st, long_waiting_passengers, nearby_vehicles) ==
    IF st.queue > overcrowding_threshold /\ long_waiting_passengers > 3
    THEN request_additional_service(st, nearby_vehicles)
    ELSE st

\* StationAgent.handle_vehicle_arrived
handle_vehicle_arrived(st, capacity, vehicle_occupancy) ==
    LET free_capacity == Max(0, capacity - vehicle_occupancy)
    IN IF free_capacity <= 0 \/ st.queue = 0
       THEN st
       ELSE [st EXCEPT !.queue = st.queue - Min(free_capacity, st.queue)]

\* one passenger-generation step of StationMainBehaviour.run
AddPassengerToQueue ==
    \E nearby_vehicles \in SUBSET ParticipantJids :
        LET st == add_passenger_to_queue(S, nearby_vehicles)
        IN /\ passenger_queue_len < MaxQueueLen
           /\ Len(st.contracts) <= MaxContracts
           /\ SetStation(st)

\* one demand-monitoring step of StationMainBehaviour.run / update_state
CheckServiceNeeds ==
    \E nearby_vehicles \in SUBSET ParticipantJids,
       long_waiting_passengers \in {3, 4} :
        LET st == check_service_needs(S, long_waiting_passengers, nearby_vehicles)
        IN /\ Len(st.contracts) <= MaxContracts
           /\ SetStation(st)

\* handle_message, VEHICLE_ARRIVED
HandleVehicleArrived ==
    \E vehicle_occupancy \in {0, bus_capacity - 1, bus_capacity} :
        LET st == handle_vehicle_arrived(S, bus_capacity, vehicle_occupancy)
        IN /\ SetStation(st)

\* a participant handles a CFP (ContractNetParticipant.handle_cfp), bids, and
\* the initiator handles the proposal (handle_message, CONTRACT_NET_PROPOSAL)
HandleProposal ==
    \E m \in cfp_inbox, bid \in BidInputs :
        LET st == [S EXCEPT !.inbox = cfp_inbox \ {m}]
        IN SetStation(handle_proposal(st, m[1],
                          create_proposal(m[2], bid, active_contracts[m[1]].task)))

\* a participant handles a CFP and cannot perform the task: no proposal
DeclineCfp ==
    \E m \in cfp_inbox :
        SetStation([S EXCEPT !.inbox = cfp_inbox \ {m}])

\* the timer of collect_proposals expires
CollectProposals ==
    \E contract_id \in DOMAIN active_contracts :
        /\ active_contracts[contract_id].collected = -1
        /\ SetStation(collect_proposals(S, contract_id))

\* handle_message, CONTRACT_NET_PROPOSAL, for a message whose body is not
\* one that create_proposal builds
HandleMalformedProposal ==
    \E contract_id \in DOMAIN active_contracts, sender \in ParticipantJids :
        /\ SetStation(handle_proposal(S, contract_id, malformed_proposal(sender)))

\* StationAgent.__init__: no execution report has come in
ReportInit == reports_handled = {}

\* the winner handles its ACCEPT (VehicleAgent.execute_contract sends
\* CONTRACT_NET_INFORM) and the station handles that report: handle_message
\* has no branch for the type and leaves the initiator's contracts alone
HandleContractInform ==
    \E i \in DOMAIN cnp_sent :
        /\ cnp_sent[i].type = "ACCEPT"
        /\ cnp_sent[i].contract_id \notin reports_handled
        /\ reports_handled' = reports_handled \cup {cnp_sent[i].contract_id}
        /\ UNCHANGED notReportVars

NextCNP ==
    \/ AddPassengerToQueue
    \/ CheckServiceNeeds
    \/ HandleVehicleArrived
    \/ HandleProposal
    \/ DeclineCfp
    \/ CollectProposals
    \/ HandleContractInform

\* what bears on the deadline of a contract: the steps that initiate one, those
\* that bring a proposal in, and the timer
NextDeadline ==
    \/ AddPassengerToQueue
    \/ CheckServiceNeeds
    \/ HandleProposal
    \/ HandleMalformedProposal
    \/ DeclineCfp
    \/ CollectProposals

------------------------------------------------------------------------------
(* The proposals of one contract: ContractNetInitiator.handle_proposal takes   *)
(* every CONTRACT_NET_PROPOSAL that names a known contract, whoever sent it    *)
(* and however often, and evaluate_proposals walks the dict in key order.      *)

\* how many proposals come in for the contract before its deadline
MaxProposals == 3

\* the tasks a station hands to initiate_cfp
AwardTasks == {[urgency |-> u, max_cost |-> max_cost] : u \in {"high", "medium"}}

\* no contract yet
NoTask == [urgency |-> "none", max_cost |-> 0]

AwardInit ==
    /\ award_task = NoTask
    /\ award_proposals = <<>>
    /\ award_received = 0
    /\ award_winner = 0
    /\ award_closed = FALSE

\* the proposal with the number of its reception
Stamped(proposal, n) ==
    [sender |-> proposal.sender, capacity |-> proposal.capacity,
     capacity_is_number |-> proposal.capacity_is_number,
     travel_half_minutes |-> proposal.travel_half_minutes, cost |-> proposal.cost,
     received |-> n]

\* ContractNetInitiator.initiate_cfp: the contract is stored with its task and
\* 'proposals': {}
InitiateAward ==
    \E task \in AwardTasks :
        /\ award_task = NoTask
        /\ award_task' = task
        /\ UNCHANGED <<award_proposals, award_received, award_winner, award_closed>>
        /\ UNCHANGED notAwardVars

\* handle_message, CONTRACT_NET_PROPOSAL: ContractNetInitiator.handle_proposal
ReceiveProposal ==
    \E sender \in ParticipantJids, bid \in BidInputs :
        /\ award_task # NoTask
        /\ ~award_closed
        /\ award_received < MaxProposals
        /\ award_received' = award_received + 1
        /\ award_proposals' =
              PutProposal(award_proposals,
                          Stamped(create_proposal(sender, bid, award_task),
                                  award_received + 1))
        /\ UNCHANGED <<award_task, award_winner, award_closed>>
        /\ UNCHANGED notAwardVars

\* the timer of collect_proposals expires: evaluate_proposals picks the winner
EvaluateAtDeadline ==
    /\ award_task # NoTask
    /\ ~award_closed
    /\ award_closed' = TRUE
    /\ award_winner' = evaluate_proposals(award_proposals, award_task)
    /\ UNCHANGED <<award_task, award_proposals, award_received>>
    /\ UNCHANGED notAwardVars

NextAward ==
    \/ InitiateAward
    \/ ReceiveProposal
    \/ EvaluateAtDeadline

------------------------------------------------------------------------------
(* Depots: BaseManager.park_at_base / deploy_from_base *)

\* bases['bus'].max_vehicles
BusDepotMaxVehicles == 15

\* bases['tram'].max_vehicles
TramDepotMaxVehicles == 10

\* bases['maintenance'].max_vehicles
MaintenanceDepotMaxVehicles == 3

\* number of agent ids that callers register, park and deploy
NumDepotAgents == 4

DepotAgentIds == 1..NumDepotAgents

\* the keys of BaseManager.bases
BaseTypes == {"bus", "tram", "maintenance"}

\* the base types callers pass; "airport" is not a key of bases
BaseTypeInputs == BaseTypes \cup {"airport"}

max_vehicles(base_type) ==
    IF base_type = "bus" THEN BusDepotMaxVehicles
    ELSE IF base_type = "tram" THEN TramDepotMaxVehicles
    ELSE MaintenanceDepotMaxVehicles

\* BaseManager.__init__
DepotInit ==
    /\ agent_registry = {}
    /\ agents_at_base = [b \in BaseTypes |-> {}]
    /\ last_park = [op |-> "none", result |-> FALSE, was_full |-> FALSE]

\* BaseManager.register_agent
register_agent(agent_id) ==
    /\ agent_registry' = agent_registry \cup {agent_id}
    /\ UNCHANGED <<agents_at_base, last_park>>

\* mutant: parks without looking at the depot's capacity
park_at_base_unbounded(agent_id, base_type) ==
    LET ok == base_type \in BaseTypes /\ agent_id \in agent_registry IN
    /\ agents_at_base' = IF ok
                         THEN [agents_at_base EXCEPT ![base_type] = @ \cup {agent_id}]
                         ELSE agents_at_base
    /\ last_park' = [op |-> "park", result |-> ok,
                     was_full |-> base_type \in BaseTypes /\
                         Cardinality(agents_at_base[base_type]) >= max_vehicles(base_type)]
    /\ UNCHANGED agent_registry

\* BaseManager.park_at_base
park_at_base(agent_id, base_type) ==
    LET was_full == base_type \in BaseTypes /\
                    Cardinality(agents_at_base[base_type]) >= max_vehicles(base_type)
        ok == base_type \in BaseTypes /\ ~was_full /\ agent_id \in agent_registry
    IN
    /\ agents_at_base' = IF ok
                         THEN [agents_at_base EXCEPT ![base_type] = @ \cup {agent_id}]
                         ELSE agents_at_base
    /\ last_park' = [op |-> "park", result |-> ok,
                     was_full |-> was_full]
    /\ UNCHANGED agent_registry

\* BaseManager.deploy_from_base; result is "a spawn position was returned"
deploy_from_base(agent_id, base_type) ==
    LET ok == /\ base_type \in BaseTypes
              /\ agent_id \in agent_registry
              /\ agent_id \in agents_at_base[base_type]
    IN
    /\ agents_at_base' = IF ok
                         THEN [agents_at_base EXCEPT ![base_type] = @ \ {agent_id}]
                         ELSE agents_at_base
    /\ last_park' = [op |-> "deploy", result |-> ok,
                     was_full |-> FALSE]
    /\ UNCHANGED agent_registry

RegisterAgent ==
    /\ \E agent_id \in DepotAgentIds : register_agent(agent_id)
    /\ UNCHANGED notDepotVars

ParkAtBase ==
    /\ \E agent_id \in DepotAgentIds, base_type \in BaseTypeInputs :
          park_at_base(agent_id, base_type)
    /\ UNCHANGED notDepotVars

DeployFromBase ==
    /\ \E agent_id \in DepotAgentIds, base_type \in BaseTypeInputs :
          deploy_from_base(agent_id, base_type)
    /\ UNCHANGED notDepotVars

NextDepot ==
    \/ RegisterAgent
    \/ ParkAtBase
    \/ DeployFromBase

------------------------------------------------------------------------------
(* Mailboxes: LocalMessageBus (protocols/message_bus.py) and the module-level *)
(* _local_queues router of BaseTransportAgent (agents/base_agent.py).  A      *)
(* message is its send number and its sender; the send numbers grow, so the   *)
(* order of the numbers is the order of the sends.                            *)

\* agent ids that take part in the exchange
Jids == {"a", "b"}

\* how many sends a behaviour makes
MaxMessages == 4

\* deque(maxlen=...) of a _local_queues entry: 1000 in the source, kept small
\* here; append() on a full deque discards the element at its left end
LocalQueueMaxLen == 2

BusInit ==
    /\ message_queues = <<>>
    /\ message_log = [j \in Jids |-> <<>>]
    /\ bus_received = [j \in Jids |-> <<>>]
    /\ local_queues = <<>>
    /\ local_agents = {}
    /\ local_sent = [j \in Jids |-> <<>>]
    /\ local_received = [j \in Jids |-> <<>>]
    /\ next_msg_id = 1
    /\ last_send = [via |-> "none", to |-> "a", registered |-> FALSE]

\* LocalMessageBus.register_agent
bus_register_agent(jid) ==
    IF jid \notin DOMAIN message_queues
    THEN DictPut(message_queues, jid, <<>>)
    ELSE message_queues

\* LocalMessageBus.send_message, its effect on message_queues
bus_send_message(to_jid, msg) ==
    IF to_jid \notin DOMAIN message_queues
    THEN message_queues
    ELSE DictPut(message_queues, to_jid, Append(message_queues[to_jid], msg))

\* deque.append on a deque with a maxlen
deque_append_unbounded(q, msg) == Append(q, msg)

deque_append(q, msg) ==
    IF Len(q) >= LocalQueueMaxLen
    THEN Append(Tail(q), msg)
    ELSE Append(q, msg)

\* BaseTransportAgent.__init__, its effect on _local_queues
agent_init(jid) ==
    IF jid \notin DOMAIN local_queues
    THEN DictPut(local_queues, jid, <<>>)
    ELSE local_queues

\* BaseTransportAgent.send_message, its effect on _local_queues
agent_send_message(to, msg) ==
    LET queues == IF to \notin DOMAIN local_queues
                  THEN DictPut(local_queues, to, <<>>)
                  ELSE local_queues
    IN DictPut(queues, to, deque_append(queues[to], msg))

BusRegisterAgent ==
    \E jid \in Jids :
        /\ message_queues' = bus_register_agent(jid)
        /\ UNCHANGED <<message_log, bus_received, local_queues, local_agents,
                       local_sent, local_received, next_msg_id, last_send>>
        /\ UNCHANGED notBusVars

BusSendMessage ==
    \E sender_jid \in Jids, to_jid \in Jids :
        LET msg == [id |-> next_msg_id, sender |-> sender_jid] IN
        /\ next_msg_id <= MaxMessages
        /\ message_queues' = bus_send_message(to_jid, msg)
        /\ message_log' = IF to_jid \in DOMAIN message_queues
                          THEN [message_log EXCEPT ![to_jid] = Append(@, msg)]
                          ELSE message_log
        /\ next_msg_id' = next_msg_id + 1
        /\ last_send' = [via |-> "bus", to |-> to_jid,
                         registered |-> to_jid \in DOMAIN message_queues]
        /\ UNCHANGED <<bus_received, local_queues, local_agents, local_sent,
                       local_received>>
        /\ UNCHANGED notBusVars

\* LocalMessageBus.receive_message: None for an unknown agent and on timeout
BusReceiveMessage ==
    \E jid \in Jids :
        /\ IF jid \in DOMAIN message_queues /\ message_queues[jid] # <<>>
           THEN /\ bus_received' = [bus_received EXCEPT
                                      ![jid] = Append(@, Head(message_queues[jid]))]
                /\ message_queues' = DictPut(message_queues, jid,
                                             Tail(message_queues[jid]))
           ELSE UNCHANGED <<bus_received, message_queues>>
        /\ UNCHANGED <<message_log, local_queues, local_agents, local_sent,
                       local_received, next_msg_id, last_send>>
        /\ UNCHANGED notBusVars

AgentInit ==
    \E jid \in Jids :
        /\ local_queues' = agent_init(jid)
        /\ local_agents' = local_agents \cup {jid}
        /\ UNCHANGED <<message_queues, message_log, bus_received, local_sent,
                       local_received, next_msg_id, last_send>>
        /\ UNCHANGED notBusVars

\* the sender is an agent, so it has been constructed
AgentSendMessage ==
    \E sender_jid \in local_agents, to \in Jids :
        LET msg == [id |-> next_msg_id, sender |-> sender_jid] IN
        /\ next_msg_id <= MaxMessages
        /\ local_queues' = agent_send_message(to, msg)
        /\ local_sent' = [local_sent EXCEPT ![to] = Append(@, msg)]
        /\ next_msg_id' = next_msg_id + 1
        /\ last_send' = [via |-> "local", to |-> to,
                         registered |-> to \in local_agents]
        /\ UNCHANGED <<message_queues, message_log, bus_received, local_agents,
                       local_received>>
        /\ UNCHANGED notBusVars

\* MessageReceiverBehaviour.run of a constructed agent: one popleft, or nothing
MessageReceiverRun ==
    \E jid \in local_agents :
        /\ IF jid \in DOMAIN local_queues /\ Len(local_queues[jid]) > 0
           THEN /\ local_received' = [local_received EXCEPT
                                        ![jid] = Append(@, Head(local_queues[jid]))]
                /\ local_queues' = DictPut(local_queues, jid,
                                           Tail(local_queues[jid]))
           ELSE UNCHANGED <<local_received, local_queues>>
        /\ UNCHANGED <<message_queues, message_log, bus_received, local_agents,
                       local_sent, next_msg_id, last_send>>
        /\ UNCHANGED notBusVars

NextBus ==
    \/ BusRegisterAgent
    \/ BusSendMessage
    \/ BusReceiveMessage
    \/ AgentInit
    \/ AgentSendMessage
    \/ MessageReceiverRun

------------------------------------------------------------------------------
(* Station passenger queue: StationAgent.passenger_queue with its arrivals,   *)
(* its patience sweep and its boardings.  A passenger is its id, the clock    *)
(* reading of its arrival (whole minutes) and the station tick of its         *)
(* arrival.  The id the code builds is the station id, the queue length and   *)
(* the clock reading at microsecond resolution; two arrivals are more than a  *)
(* microsecond apart, so the reading is kept as the number of the arrival.    *)
(* The negotiation an arrival may start is the Contract Net component's.      *)

\* SIMULATION_CONFIG['passenger']['patience_time'], minutes
patience_time == 15

\* the station sweeps its queue every so many ticks
sweep_period == 100

\* the wall clock is read in steps of this many minutes, up to MaxNow
ClockStep == 16

MaxNow == 16

\* how many passengers arrive after the start
MaxNewPassengers == 2

\* how many ticks a station runs after the start
MaxTicksRun == 17

\* the queue after n arrivals in the first minute, all during this tick, with
\* no vehicle in between
RECURSIVE Arrivals(_, _)
Arrivals(n, tick) ==
    IF n = 0 THEN <<>>
    ELSE Append(Arrivals(n - 1, tick),
                [id |-> <<n - 1, n - 1>>, arrival_time |-> 0,
                 arrival_tick |-> tick])

\* a new station, and a station MaxTicksRun ticks before its first sweep whose
\* queue has just filled up
QueueStarts ==
    {[tick |-> 0, queue |-> <<>>],
     [tick |-> sweep_period - MaxTicksRun,
      queue |-> Arrivals(max_queue_size, sweep_period - MaxTicksRun)]}

\* the station's last step handled no VEHICLE_ARRIVED
NoArrival == [handled |-> FALSE, capacity |-> 0, occupancy |-> 0,
              queue_before |-> <<>>, queue_after |-> <<>>,
              sent |-> FALSE, passengers |-> <<>>]

QueueInitFrom(start) ==
    /\ passenger_queue = start.queue
    /\ current_tick = start.tick
    /\ now = 0
    /\ passengers_created = Len(start.queue)
    /\ last_arrival = NoArrival

QueueInit == QueueInitFrom([tick |-> 0, queue |-> <<>>])

\* StationAgent._remove_impatient_passengers
remove_impatient_passengers(queue, t) ==
    SelectSeq(queue, LAMBDA p : ~(t - p.arrival_time > patience_time))

\* StationAgent.add_passenger_to_queue, its effect on the queue
queue_add_passenger_unguarded(queue, t, tick, n) ==
    Append(queue, [id |-> <<Len(queue), n>>, arrival_time |-> t,
                   arrival_tick |-> tick])

queue_add_passenger(queue, t, tick, n) ==
    IF Len(queue) < max_queue_size
    THEN Append(queue, [id |-> <<Len(queue), n>>, arrival_time |-> t,
                        arrival_tick |-> tick])
    ELSE queue

RECURSIVE boarding_passengers(_, _)
\* the loop of StationAgent.handle_vehicle_arrived: boarding_count times, the
\* head of the queue is popped and its id appended to the list
boarding_passengers(queue, boarding_count) ==
    IF boarding_count = 0 \/ queue = <<>>
    THEN <<>>
    ELSE <<Head(queue).id>> \o boarding_passengers(Tail(queue), boarding_count - 1)

\* StationAgent.handle_vehicle_arrived, its reply: whether a BOARDING_LIST is
\* sent, and its "passengers"
boarding_list(queue, capacity, vehicle_occupancy) ==
    LET free_capacity == Max(0, capacity - vehicle_occupancy)
        boarding_count == Min(free_capacity, Len(queue))
    IN IF free_capacity <= 0 \/ Len(queue) = 0
       THEN [sent |-> FALSE, passengers |-> <<>>]
       ELSE [sent |-> TRUE, passengers |-> boarding_passengers(queue, boarding_count)]

\* mutant: the boarded passengers are read off the queue and left in it
queue_handle_vehicle_arrived_peeking(queue, capacity, vehicle_occupancy) == queue

\* mutant: the last passenger of the list stays in the queue
queue_handle_vehicle_arrived_keeping_last(queue, capacity, vehicle_occupancy) ==
    LET free_capacity == Max(0, capacity - vehicle_occupancy)
        boarding_count == Min(free_capacity, Len(queue))
    IN IF free_capacity <= 0 \/ Len(queue) = 0
       THEN queue
       ELSE SubSeq(queue, boarding_count, Len(queue))

\* StationAgent.handle_vehicle_arrived, its effect on the queue
queue_handle_vehicle_arrived(queue, capacity, vehicle_occupancy) ==
    LET free_capacity == Max(0, capacity - vehicle_occupancy)
        boarding_count == Min(free_capacity, Len(queue))
    IN IF free_capacity <= 0 \/ Len(queue) = 0
       THEN queue
       ELSE SubSeq(queue, boarding_count + 1, Len(queue))

\* StationAgent.update_state: the tick, and the sweep every sweep_period ticks
UpdateState ==
    /\ \E start \in QueueStarts :
          start.tick <= current_tick /\ current_tick < start.tick + MaxTicksRun
    /\ current_tick' = current_tick + 1
    /\ passenger_queue' =
          IF current_tick' % sweep_period = 0
          THEN remove_impatient_passengers(passenger_queue, now)
          ELSE passenger_queue
    /\ last_arrival' = NoArrival
    /\ UNCHANGED <<now, passengers_created>>
    /\ UNCHANGED notQueueVars

QueueAddPassenger ==
    /\ \/ Len(passenger_queue) >= max_queue_size
       \/ \E start \in QueueStarts :
             /\ Len(start.queue) <= passengers_created
             /\ passengers_created < Len(start.queue) + MaxNewPassengers
    /\ passenger_queue' = queue_add_passenger(passenger_queue, now,
                                              current_tick, passengers_created)
    /\ passengers_created' = IF Len(passenger_queue) < max_queue_size
                             THEN passengers_created + 1
                             ELSE passengers_created
    /\ last_arrival' = NoArrival
    /\ UNCHANGED <<current_tick, now>>
    /\ UNCHANGED notQueueVars

QueueHandleVehicleArrived ==
    \E vehicle_occupancy \in {0, bus_capacity \div 3, bus_capacity} :
        /\ passenger_queue' = queue_handle_vehicle_arrived(
                                  passenger_queue, bus_capacity, vehicle_occupancy)
        /\ last_arrival' =
              LET reply == boarding_list(passenger_queue, bus_capacity,
                                         vehicle_occupancy)
              IN [handled |-> TRUE, capacity |-> bus_capacity,
                  occupancy |-> vehicle_occupancy,
                  queue_before |-> passenger_queue,
                  queue_after |-> passenger_queue',
                  sent |-> reply.sent, passengers |-> reply.passengers]
        /\ UNCHANGED <<current_tick, now, passengers_created>>
        /\ UNCHANGED notQueueVars

\* the wall clock moves on
ClockAdvance ==
    /\ now < MaxNow
    /\ now' = now + ClockStep
    /\ last_arrival' = NoArrival
    /\ UNCHANGED <<passenger_queue, current_tick, passengers_created>>
    /\ UNCHANGED notQueueVars

NextQueue ==
    \/ UpdateState
    \/ QueueAddPassenger
    \/ QueueHandleVehicleArrived
    \/ ClockAdvance

------------------------------------------------------------------------------
(* Maintenance crews: MaintenanceAgent.  A constructed crew has no            *)
(* base_position, its own current_position (a random cell, kept as 0) and an  *)
(* empty maintenance_crews.  As main.py wires it, every crew knows every      *)
(* crew, and base_position and the first current_position of every crew are   *)
(* one and the same Position object.                                          *)
(* The grid is one row of half cells (a crew is to move 0.5 per tick, but the *)
(* assignment to a field of its Position raises, see moved_in_place); the     *)
(* maintenance base is at 0.  A broken vehicle is                             *)
(* kept as its flag, the number of its breakdown (the alert's                 *)
(* breakdown_time) and the MAINTENANCE_COMPLETED messages it has not handled. *)
(* The two prioritize_jobs of the class: the second, a coroutine function,    *)
(* replaces the first, so prioritize_jobs() only builds a coroutine that is   *)
(* never awaited and the queue stays in order of acceptance.                  *)

\* SIMULATION_CONFIG['maintenance']['tools_for_tire']
tools_for_tire == 2

\* SIMULATION_CONFIG['maintenance']['tools_for_engine']
tools_for_engine == 5

\* SIMULATION_CONFIG['maintenance']['tow_hooks_for_tow']
tow_hooks_for_tow == 1

\* the crews main.py starts: num_maintenance_crews of them, fewer here
NumCrews == 2

CrewIds == 1..NumCrews

\* the vehicles that break down
NumBrokenVehicles == 2

CrewVehicleIds == 1..NumBrokenVehicles

\* how often one vehicle breaks down
MaxBreakdowns == 1

\* the cells a vehicle breaks down at are 0..MaxCell, 0 being the cell of the
\* maintenance base, where the crews are
MaxCell == 1

\* what a job of this breakdown kind needs from the maintenance base
tools_needed(kind) ==
    IF kind = "tire" THEN tools_for_tire
    ELSE IF kind = "engine" THEN tools_for_engine
    ELSE 0

tow_hooks_needed(kind) ==
    IF kind = "tow" THEN tow_hooks_for_tow ELSE 0

\* current_job = None
NoJob == [vehicle_id |-> 0, breakdown_no |-> 0, breakdown_type |-> "none",
          position |-> 0, priority |-> 0]

CrewInit ==
    /\ crews = [c \in CrewIds |->
                  [state |-> "idle", is_busy |-> FALSE, current_job |-> NoJob,
                   job_queue |-> <<>>, has_base |-> FALSE, maintenance_crews |-> {},
                   at_base_object |-> FALSE, position |-> 0,
                   towing_vehicle |-> FALSE,
                   allocated_resources |-> [tools |-> 0, tow_hooks |-> 0],
                   finish_scheduled |-> FALSE]]
    /\ base_position = 0
    /\ alert_queues = [c \in CrewIds |-> <<>>]
    /\ broken_vehicles = [v \in CrewVehicleIds |->
                            [is_broken |-> FALSE, breakdown_no |-> 0,
                             completed_inbox |-> 0]]
    /\ accepted = {}
    /\ completed_sent = [c \in CrewIds |->
                           [v \in CrewVehicleIds |-> [b \in 1..MaxBreakdowns |-> 0]]]

\* the value of crew.current_position
current_position_of(cs, bp, c) ==
    IF cs[c].at_base_object THEN bp ELSE cs[c].position

\* self.current_position.x += step (or .y): Position is a frozen dataclass,
\* the assignment raises FrozenInstanceError, which leaves update_state and is
\* caught and printed by MaintenanceMainBehaviour.run; the crew is where and
\* as it was
moved_in_place(cs, c) == cs

\* the distance of a position to the nearest station of the city, in half cells
nearest_station_distance(position) ==
    LET ds == {IF position >= 2 * CityStations[i]
               THEN position - 2 * CityStations[i]
               ELSE 2 * CityStations[i] - position : i \in DOMAIN CityStations}
    IN CHOOSE d \in ds : \A e \in ds : d <= e

\* the longest time an alert has spent on its way when the crew handles it
MaxWaited == 1

\* MaintenanceAgent.calculate_job_priority, in 1/200000, on the 20x20 grid of
\* the settings (max_distance 20): 0.4 for the distance from the crew, 0.2
\* for the distance to the nearest station, and 0.4 for the time since the
\* breakdown, which is the time the alert has spent on its way (waited, one
\* unit being 1/200000 of the 30 minutes that give the full 0.4)
calculate_job_priority(here, vehicle_position, waited) ==
    LET distance == IF here >= vehicle_position
                    THEN here - vehicle_position ELSE vehicle_position - here
    IN (80000 - 2000 * distance)
       + (40000 - Min(40000, 4000 * nearest_station_distance(vehicle_position)))
       + waited

\* the repair job handle_breakdown_alert builds from an alert
repair_job(alert, priority) ==
    [vehicle_id |-> alert.vehicle_id, breakdown_no |-> alert.breakdown_no,
     breakdown_type |-> alert.breakdown_type, position |-> alert.position,
     priority |-> priority]

\* mutant: the clean-up is left out, the crew keeps the job and its state
finish_current_job_keeping_job(crew, has_base) ==
    IF crew.current_job = NoJob
    THEN [crew |-> crew, sent |-> FALSE]
    ELSE [crew |-> crew, sent |-> TRUE]

\* mutant: takes the branch of a crew without base_position
finish_current_job_to_idle(crew, has_base) ==
    IF crew.current_job = NoJob
    THEN [crew |-> crew, sent |-> FALSE]
    ELSE [crew |-> [crew EXCEPT !.current_job = NoJob, !.is_busy = FALSE,
                                !.state = "idle"],
          sent |-> TRUE]

\* MaintenanceAgent.finish_current_job: the crew after it, and whether it sent
\* MAINTENANCE_COMPLETED to the vehicle of its job
finish_current_job(crew, has_base) ==
    IF crew.current_job = NoJob
    THEN [crew |-> crew, sent |-> FALSE]
    ELSE [crew |-> [crew EXCEPT !.current_job = NoJob, !.is_busy = FALSE,
                                !.state = IF has_base THEN "returning_to_base"
                                                      ELSE "idle"],
          sent |-> TRUE]

HasVehicle(crew, vid) ==
    \/ crew.current_job.vehicle_id = vid
    \/ \E i \in 1..Len(crew.job_queue) : crew.job_queue[i].vehicle_id = vid

\* MaintenanceAgent.handle_breakdown_alert: does this crew accept the alert
accepts_alert(cs, c, vid) ==
    /\ ~HasVehicle(cs[c], vid)
    /\ \A other \in cs[c].maintenance_crews :
          other # c => ~HasVehicle(cs[other], vid)

\* main.py, before it starts the agents: every crew gets the one Position
\* object of the maintenance base as base_position and as current_position,
\* and the list of all crews.  SimulationCoordinator.create_maintenance_agents
\* starts the crews as they are constructed, without this step.
MainWiresCrews ==
    /\ \A c \in CrewIds : ~crews[c].has_base
    /\ \A v \in CrewVehicleIds : broken_vehicles[v].breakdown_no = 0
    /\ crews' = [c \in CrewIds |->
                   [crews[c] EXCEPT !.has_base = TRUE,
                                    !.at_base_object = TRUE,
                                    !.maintenance_crews = CrewIds]]
    /\ base_position' = 0
    /\ UNCHANGED <<alert_queues, broken_vehicles, accepted, completed_sent>>
    /\ UNCHANGED notCrewVars

\* a vehicle breaks down and sends BREAKDOWN_ALERT to every crew
\* (VehicleAgent.check_vehicle_health)
VehicleBreaksDown ==
    \E v \in CrewVehicleIds, kind \in BreakdownTypes, cell \in 0..MaxCell :
        LET alert == [vehicle_id |-> v,
                      breakdown_no |-> broken_vehicles[v].breakdown_no + 1,
                      breakdown_type |-> kind, position |-> 2 * cell]
        IN
        /\ ~broken_vehicles[v].is_broken
        /\ broken_vehicles[v].breakdown_no < MaxBreakdowns
        /\ broken_vehicles' = [broken_vehicles EXCEPT
                                 ![v].is_broken = TRUE,
                                 ![v].breakdown_no = @ + 1]
        /\ alert_queues' = [c \in CrewIds |->
                              Append(alert_queues[c], alert)]
        /\ UNCHANGED <<crews, base_position, accepted, completed_sent>>
        /\ UNCHANGED notCrewVars

\* the vehicle handles one MAINTENANCE_COMPLETED
\* (VehicleAgent.handle_maintenance_completed)
VehicleHandlesCompleted ==
    \E v \in CrewVehicleIds :
        /\ broken_vehicles[v].completed_inbox > 0
        /\ broken_vehicles' = [broken_vehicles EXCEPT
                                 ![v].is_broken = FALSE,
                                 ![v].completed_inbox = @ - 1]
        /\ UNCHANGED <<crews, base_position, alert_queues, accepted, completed_sent>>
        /\ UNCHANGED notCrewVars

\* the crew's receiver pops its oldest alert: MaintenanceAgent.handle_breakdown_alert
HandleBreakdownAlert ==
    \E c \in CrewIds, waited \in 0..MaxWaited :
        /\ alert_queues[c] # <<>>
        /\ LET alert == Head(alert_queues[c])
               accept == accepts_alert(crews, c, alert.vehicle_id)
           IN
           /\ alert_queues' = [alert_queues EXCEPT ![c] = Tail(@)]
           /\ crews' = IF accept
                       THEN [crews EXCEPT ![c].job_queue =
                               Append(@, repair_job(alert,
                                   calculate_job_priority(
                                       current_position_of(crews, base_position, c),
                                       alert.position, waited)))]
                       ELSE crews
           /\ accepted' = IF accept
                          THEN accepted \cup
                                 {[vehicle_id |-> alert.vehicle_id,
                                   breakdown_no |-> alert.breakdown_no,
                                   crew |-> c]}
                          ELSE accepted
        /\ UNCHANGED <<base_position, broken_vehicles, completed_sent>>
        /\ UNCHANGED notCrewVars

\* MaintenanceAgent.update_state; elapsed: the repair time is over.  A
\* finish_current_job task the last tick created runs before the next tick.
CrewUpdateState ==
    \E c \in CrewIds, elapsed \in BOOLEAN :
        LET crew == crews[c]
            here == current_position_of(crews, base_position, c)
        IN
        /\ ~crew.finish_scheduled
        /\ \/ /\ crew.state = "idle"
              /\ crews' = IF crew.current_job = NoJob /\ crew.job_queue # <<>>
                          THEN [crews EXCEPT
                                  ![c].current_job = Head(crew.job_queue),
                                  ![c].job_queue = Tail(crew.job_queue),
                                  ![c].state = "en_route",
                                  ![c].is_busy = TRUE]
                          ELSE crews
              /\ UNCHANGED base_position
           \/ /\ crew.state = "en_route"
              /\ crews' = IF here = crew.current_job.position
                          THEN [crews EXCEPT
                                  ![c].at_base_object = FALSE,
                                  ![c].position = crew.current_job.position,
                                  ![c].state = "repairing"]
                          ELSE moved_in_place(crews, c)
              /\ UNCHANGED base_position
           \/ /\ crew.state = "repairing"
              /\ crews' = IF elapsed
                          THEN [crews EXCEPT ![c].finish_scheduled = TRUE]
                          ELSE crews
              /\ UNCHANGED base_position
           \/ /\ crew.state = "returning_to_base"
              /\ IF ~crew.has_base
                 THEN crews' = [crews EXCEPT ![c].state = "idle"]
                 ELSE IF here = base_position
                 THEN crews' = [crews EXCEPT
                                  ![c].at_base_object = TRUE,
                                  ![c].position = 0,
                                  ![c].state = "idle",
                                  ![c].is_busy = FALSE]
                 ELSE crews' = moved_in_place(crews, c)
              /\ UNCHANGED base_position
        /\ UNCHANGED <<alert_queues, broken_vehicles, accepted, completed_sent>>
        /\ UNCHANGED notCrewVars

\* the task update_state created runs finish_current_job
FinishCurrentJob ==
    \E c \in CrewIds :
        LET crew == crews[c]
            job == crew.current_job
            done == finish_current_job(crew, crew.has_base)
        IN
        /\ crew.finish_scheduled
        /\ crews' = [crews EXCEPT ![c] = [done.crew EXCEPT !.finish_scheduled = FALSE]]
        /\ IF done.sent
           THEN /\ broken_vehicles' = [broken_vehicles EXCEPT
                                         ![job.vehicle_id].completed_inbox = @ + 1]
                /\ completed_sent' = [completed_sent EXCEPT
                                        ![c][job.vehicle_id][job.breakdown_no] = @ + 1]
           ELSE UNCHANGED <<broken_vehicles, completed_sent>>
        /\ UNCHANGED <<base_position, alert_queues, accepted>>
        /\ UNCHANGED notCrewVars

NextCrew ==
    \/ MainWiresCrews
    \/ VehicleBreaksDown
    \/ VehicleHandlesCompleted
    \/ HandleBreakdownAlert
    \/ CrewUpdateState
    \/ FinishCurrentJob

------------------------------------------------------------------------------
(* The mock simulation: DemoSimulation (demo.py) with its TrafficManager and  *)
(* BaseManager.  update_simulation runs three loops one after the other: the  *)
(* dispatch loop over the vehicles, the loop over the maintenance agents and  *)
(* the loop over the vehicles; demo_pc is the loop and the index the tick has *)
(* reached, and one action is one iteration.  The grid is one row of cells    *)
(* 0..GridMax, so a Position is its x coordinate and a direction its dx; the  *)
(* fleet is scaled to its trams, and the runs are those in which no vehicle's *)
(* fuel has fallen below 20, except in the specification that starts them    *)
(* at that level.                                                             *)

\* the largest x of the grid (source: 19)
GridMax == 2

\* the ticks of a run
MaxSimulationTime == 5

\* the trams of the fleet (source: 4, vehicle_6 .. vehicle_9)
NumTrams == 2

\* the maintenance agents (source: 3, maint_0 .. maint_2)
NumDemoCrews == 1

\* vehicle_6, vehicle_7, ...
TramIds == 6..(5 + NumTrams)

\* maint_0, maint_1, ...; kept apart from the vehicle numbers
DemoCrewIds == 100..(99 + NumDemoCrews)

\* target_vehicle = None
NoTarget == 0

Cells == 0..GridMax

\* the entry point of the maintenance base, inside the row as (10, 0) is
maintenance_entry == 1

\* city.stations[i % len(city.stations)]: the trams start at stations of their own
start_pos(v) == IF v = 6 THEN 0 ELSE GridMax

\* random.choice([-1, 0, 1])
MoveChoices == {-1, 0, 1}

\* the draws of one vehicle step: no move, or a move by dx
Moves == {[go |-> FALSE, dx |-> 0]} \cup {[go |-> TRUE, dx |-> d] : d \in MoveChoices}

\* position_occupancy[cell] when nothing is registered at the cell
NoVehicles == [v \in {} |-> [type |-> "tram", direction |-> 0, broken |-> FALSE]]

\* TrafficManager.register_vehicle_position
register_vehicle_position(tm, v, position, vehicle_type, direction, broken) ==
    [position_occupancy |->
        [tm.position_occupancy EXCEPT ![position] =
            DictPut(@, v, [type |-> vehicle_type, direction |-> direction,
                           broken |-> broken])],
     blocked_rails |->
        IF vehicle_type = "tram" /\ broken
        THEN tm.blocked_rails \cup {position}
        ELSE tm.blocked_rails]

\* TrafficManager.unregister_vehicle_position
unregister_vehicle_position(tm, v, position) ==
    IF v \in DOMAIN tm.position_occupancy[position]
    THEN [position_occupancy |->
             [tm.position_occupancy EXCEPT ![position] = DictWithout(@, {v})],
          blocked_rails |->
             IF /\ tm.position_occupancy[position][v].type = "tram"
                /\ tm.position_occupancy[position][v].broken
             THEN tm.blocked_rails \ {position}
             ELSE tm.blocked_rails]
    ELSE tm

\* TrafficManager._same_direction
same_direction(dir1, dir2) ==
    IF dir1 = 0 \/ dir2 = 0
    THEN FALSE
    ELSE dir1 * dir2 > 0

\* TrafficManager.can_move_to_position
can_move_to_position(tm, v, position, vehicle_type, direction) ==
    IF DOMAIN tm.position_occupancy[position] = {}
    THEN TRUE
    ELSE IF vehicle_type = "tram"
    THEN /\ position \notin tm.blocked_rails
         /\ \A other \in DOMAIN tm.position_occupancy[position] :
               (other # v /\ tm.position_occupancy[position][other].type = "tram")
                  => ~same_direction(direction,
                                     tm.position_occupancy[position][other].direction)
    ELSE TRUE

\* TrafficManager.repair_vehicle
repair_vehicle(tm, v, position) ==
    IF v \in DOMAIN tm.position_occupancy[position]
    THEN [position_occupancy |->
             [tm.position_occupancy EXCEPT ![position][v].broken = FALSE],
          blocked_rails |-> tm.blocked_rails \ {position}]
    ELSE tm

\* the TrafficManager of the simulation
TM == [position_occupancy |-> position_occupancy, blocked_rails |-> blocked_rails]

SetTM(tm) ==
    /\ position_occupancy' = tm.position_occupancy
    /\ blocked_rails' = tm.blocked_rails

RECURSIVE register_all(_, _)
\* setup_demo_agents: every vehicle is registered at its station, standing
register_all(tm, vs) ==
    IF vs = {} THEN tm
    ELSE LET v == CHOOSE x \in vs : TRUE IN
         register_all(register_vehicle_position(tm, v, start_pos(v), "tram",
                                                0, FALSE),
                      vs \ {v})

\* DemoSimulation.setup_demo_agents, without the base manager's part
DemoInit ==
    /\ demo_vehicles = [v \in TramIds |->
                          [position |-> start_pos(v), direction |-> 0,
                           is_broken |-> FALSE, breakdown_type |-> "none",
                           state |-> "active"]]
    /\ maintenance_agents = [c \in DemoCrewIds |->
                               [state |-> "at_base", position |-> maintenance_entry,
                                target_vehicle |-> NoTarget, towing_vehicle |-> FALSE,
                                tools |-> 0, tow_hooks |-> 0]]
    /\ LET tm == register_all([position_occupancy |-> [c \in Cells |-> NoVehicles],
                               blocked_rails |-> {}], TramIds)
       IN /\ position_occupancy = tm.position_occupancy
          /\ blocked_rails = tm.blocked_rails
    /\ demo_pc = [loop |-> "dispatch", index |-> 1]
    /\ simulation_time = 0

\* setup_demo_agents: vehicles and crews registered, the crews parked
DemoDepotInit ==
    /\ agent_registry = TramIds \cup DemoCrewIds
    /\ agents_at_base = [b \in BaseTypes |->
                           IF b = "maintenance" THEN DemoCrewIds ELSE {}]
    /\ last_park = [op |-> "park", result |-> TRUE, was_full |-> FALSE]

\* the k-th vehicle of self.vehicles, the k-th agent of self.maintenance_agents
vehicle_at(k) == 5 + k

crew_at(k) == 99 + k

\* where the tick goes on after this iteration
next_pc(pc) ==
    IF pc.loop = "dispatch"
    THEN IF pc.index < NumTrams THEN [pc EXCEPT !.index = @ + 1]
         ELSE [loop |-> "crews", index |-> 1]
    ELSE IF pc.loop = "crews"
    THEN IF pc.index < NumDemoCrews THEN [pc EXCEPT !.index = @ + 1]
         ELSE [loop |-> "vehicles", index |-> 1]
    ELSE IF pc.index < NumTrams THEN [pc EXCEPT !.index = @ + 1]
         ELSE [loop |-> "dispatch", index |-> 1]

\* dx = 1 if target.x > x else (-1 if target.x < x else 0)
sign_towards(from, target) ==
    IF target > from THEN 1 ELSE IF target < from THEN -1 ELSE 0

step_to(from, target) == from + sign_towards(from, target)

\* max(0, min(19, x + dx)) on the scaled grid
clamped(position, dx) == Max(0, Min(GridMax, position + dx))

\* DemoSimulation.trigger_breakdown, between two ticks
TriggerBreakdown ==
    /\ demo_pc = [loop |-> "dispatch", index |-> 1]
    /\ \E v \in TramIds, kind \in BreakdownTypes :
          /\ ~demo_vehicles[v].is_broken
          /\ demo_vehicles[v].state = "active"
          /\ demo_vehicles' = [demo_vehicles EXCEPT ![v].is_broken = TRUE,
                                                    ![v].breakdown_type = kind]
    /\ UNCHANGED <<maintenance_agents, position_occupancy, blocked_rails, demo_pc,
                   simulation_time>>
    /\ UNCHANGED <<poolVars, depotVars, fuelVars>>
    /\ UNCHANGED notDemoVars

\* update_simulation, one iteration of the dispatch loop; the first one
\* begins the tick
DispatchMaintenance ==
    /\ demo_pc.loop = "dispatch"
    /\ demo_pc' = next_pc(demo_pc)
    /\ IF demo_pc.index = 1
       THEN /\ simulation_time < MaxSimulationTime
            /\ simulation_time' = simulation_time + 1
       ELSE UNCHANGED simulation_time
    /\ LET v == vehicle_at(demo_pc.index)
           vehicle == demo_vehicles[v]
           assigned == \E c \in DemoCrewIds : maintenance_agents[c].target_vehicle = v
           available_maint == agents_at_base["maintenance"]
       IN
       IF vehicle.is_broken /\ vehicle.state = "active" /\ ~assigned
       THEN \E kind \in (IF vehicle.breakdown_type = "none"
                         THEN BreakdownTypes ELSE {vehicle.breakdown_type}) :
               /\ demo_vehicles' = [demo_vehicles EXCEPT ![v].breakdown_type = kind]
               /\ IF available_maint = {}
                  THEN UNCHANGED <<maintenance_agents, poolVars, depotVars>>
                  ELSE /\ request_resources(tools_needed(kind), tow_hooks_needed(kind))
                       /\ IF last_call'.result
                          THEN \E maint_id \in available_maint :
                                  /\ deploy_from_base(maint_id, "maintenance")
                                  /\ maintenance_agents' =
                                        [maintenance_agents EXCEPT ![maint_id] =
                                            [state |-> "active",
                                             position |-> maintenance_entry,
                                             target_vehicle |-> v,
                                             towing_vehicle |-> FALSE,
                                             tools |-> tools_needed(kind),
                                             tow_hooks |-> tow_hooks_needed(kind)]]
                          ELSE UNCHANGED <<maintenance_agents, depotVars>>
       ELSE UNCHANGED <<demo_vehicles, maintenance_agents, poolVars, depotVars>>
    /\ UNCHANGED <<position_occupancy, blocked_rails, fuelVars>>
    /\ UNCHANGED notDemoVars

\* update_simulation, one iteration of the loop over the maintenance agents
UpdateMaintenance ==
    /\ demo_pc.loop = "crews"
    /\ demo_pc' = next_pc(demo_pc)
    /\ UNCHANGED simulation_time
    /\ LET c == crew_at(demo_pc.index)
           maint == maintenance_agents[c]
           target == demo_vehicles[maint.target_vehicle]
       IN
       IF maint.state = "at_base"
       THEN UNCHANGED <<demo_vehicles, maintenance_agents, position_occupancy,
                        blocked_rails, poolVars, depotVars>>
       ELSE IF maint.target_vehicle = NoTarget
       THEN /\ IF maint.position # maintenance_entry
               THEN /\ maintenance_agents' = [maintenance_agents EXCEPT
                          ![c].position = step_to(maint.position, maintenance_entry)]
                    /\ UNCHANGED depotVars
               ELSE /\ park_at_base(c, "maintenance")
                    /\ maintenance_agents' = [maintenance_agents EXCEPT
                                                ![c].state = "at_base"]
            /\ UNCHANGED <<demo_vehicles, position_occupancy, blocked_rails, poolVars>>
       ELSE IF ~target.is_broken
       THEN /\ maintenance_agents' = [maintenance_agents EXCEPT
                                        ![c].target_vehicle = NoTarget]
            /\ UNCHANGED <<demo_vehicles, position_occupancy, blocked_rails,
                           poolVars, depotVars>>
       ELSE IF target.breakdown_type = "tow" /\ maint.towing_vehicle
       THEN IF maint.position # maintenance_entry
            THEN /\ maintenance_agents' = [maintenance_agents EXCEPT
                       ![c].position = step_to(maint.position, maintenance_entry)]
                 /\ demo_vehicles' = [demo_vehicles EXCEPT
                       ![maint.target_vehicle].position =
                           step_to(maint.position, maintenance_entry)]
                 /\ UNCHANGED <<position_occupancy, blocked_rails, poolVars, depotVars>>
            ELSE /\ demo_vehicles' = [demo_vehicles EXCEPT
                       ![maint.target_vehicle].is_broken = FALSE,
                       ![maint.target_vehicle].breakdown_type = "none"]
                 /\ SetTM(repair_vehicle(TM, maint.target_vehicle, target.position))
                 /\ release_resources(maint.tools, maint.tow_hooks)
                 /\ maintenance_agents' = [maintenance_agents EXCEPT
                                             ![c].target_vehicle = NoTarget,
                                             ![c].towing_vehicle = FALSE]
                 /\ UNCHANGED depotVars
       ELSE IF maint.position # target.position
       THEN /\ maintenance_agents' = [maintenance_agents EXCEPT
                  ![c].position = step_to(maint.position, target.position)]
            /\ UNCHANGED <<demo_vehicles, position_occupancy, blocked_rails,
                           poolVars, depotVars>>
       ELSE IF target.breakdown_type = "tow"
       THEN /\ maintenance_agents' = [maintenance_agents EXCEPT
                                        ![c].towing_vehicle = TRUE]
            /\ SetTM(repair_vehicle(TM, maint.target_vehicle, target.position))
            /\ UNCHANGED <<demo_vehicles, poolVars, depotVars>>
       ELSE /\ demo_vehicles' = [demo_vehicles EXCEPT
                  ![maint.target_vehicle].is_broken = FALSE,
                  ![maint.target_vehicle].breakdown_type = "none"]
            /\ SetTM(repair_vehicle(TM, maint.target_vehicle, target.position))
            /\ release_resources(maint.tools, maint.tow_hooks)
            /\ maintenance_agents' = [maintenance_agents EXCEPT
                                        ![c].target_vehicle = NoTarget]
            /\ UNCHANGED depotVars
    /\ UNCHANGED fuelVars
    /\ UNCHANGED notDemoVars

\* the vehicle after its move, if it makes one
moved_vehicle(vehicle, tm, v, move) ==
    IF vehicle.is_broken \/ ~move.go
    THEN vehicle
    ELSE LET new_pos == clamped(vehicle.position, move.dx) IN
         IF can_move_to_position(tm, v, new_pos, "tram", move.dx)
         THEN [vehicle EXCEPT !.position = new_pos, !.direction = move.dx]
         ELSE vehicle

\* the traffic manager after the vehicle's move, if it makes one
moved_tm(vehicle, tm, v, move) ==
    IF vehicle.is_broken \/ ~move.go
    THEN tm
    ELSE LET new_pos == clamped(vehicle.position, move.dx) IN
         IF can_move_to_position(tm, v, new_pos, "tram", move.dx)
         THEN register_vehicle_position(
                  unregister_vehicle_position(tm, v, vehicle.position),
                  v, new_pos, "tram", move.dx, vehicle.is_broken)
         ELSE tm

\* SIMULATION_CONFIG['vehicle']['fuel_capacity']
fuel_capacity == 100

\* SIMULATION_CONFIG['vehicle']['fuel_consumption_per_cell']
fuel_consumption_per_cell == 1

\* the level below which a vehicle makes for its depot (source: 20, one more
\* than the largest x of the grid, 19)
low_fuel == GridMax + 1

\* the entry point of the tram depot, (19, 10): the last cell of the row
tram_entry == GridMax

\* MockAgent.__init__: fuel_level = fuel_capacity
FuelInit == fuel_level = [v \in TramIds |-> fuel_capacity]

\* every vehicle has moved, without leaving its cell (dx = 0), until its fuel
\* is at the threshold
LowFuelInit == fuel_level = [v \in TramIds |-> low_fuel]

\* vehicle.fuel_level -= fuel_consumption_per_cell; a level that the ticks of
\* a run cannot bring down to the threshold is kept as it is
consumed(fuel) ==
    IF fuel > low_fuel + MaxSimulationTime
    THEN fuel
    ELSE fuel - fuel_consumption_per_cell

\* if not vehicle.is_broken and vehicle.fuel_level > 0
may_drive(vehicle, fuel) == ~vehicle.is_broken /\ fuel > 0

\* update_simulation, one iteration of the loop over the vehicles; move is the
\* dx drawn, or no move when the draws against 0.3 and the speed modifier
\* fail; breakdown is the kind drawn, or "none" when the breakdown draw fails
UpdateVehicle ==
    /\ demo_pc.loop = "vehicles"
    /\ demo_pc' = next_pc(demo_pc)
    /\ UNCHANGED simulation_time
    /\ \E move \in Moves, breakdown \in {"none"} \cup BreakdownTypes :
          LET v == vehicle_at(demo_pc.index)
              vehicle == demo_vehicles[v]
              fuel == fuel_level[v]
              drives == may_drive(vehicle, fuel)
              low == drives /\ fuel < low_fuel
              parks == low /\ vehicle.position = tram_entry
              drawn == IF low
                       THEN [go |-> move.go,
                             dx |-> sign_towards(vehicle.position, tram_entry)]
                       ELSE move
              stays == [go |-> FALSE, dx |-> 0]
              step == IF drives /\ ~parks THEN drawn ELSE stays
              after == moved_vehicle(vehicle, TM, v, step)
              tm == IF parks
                    THEN unregister_vehicle_position(TM, v, vehicle.position)
                    ELSE moved_tm(vehicle, TM, v, step)
              has_moved == /\ ~vehicle.is_broken
                           /\ step.go
                           /\ can_move_to_position(TM, v,
                                  clamped(vehicle.position, step.dx), "tram", step.dx)
          IN
          IF vehicle.state = "at_base"
          THEN /\ fuel_level' = [fuel_level EXCEPT ![v] = fuel_capacity]
               /\ UNCHANGED <<demo_vehicles, position_occupancy, blocked_rails, depotVars>>
          ELSE /\ IF parks
                  THEN park_at_base(v, "tram")
                  ELSE UNCHANGED depotVars
               /\ LET there == IF parks /\ last_park'.result
                               THEN [after EXCEPT !.state = "at_base"]
                               ELSE after
                      breaks == /\ ~there.is_broken
                                /\ there.state = "active"
                                /\ breakdown # "none"
                  IN /\ demo_vehicles' = [demo_vehicles EXCEPT ![v] =
                            IF breaks
                            THEN [there EXCEPT !.is_broken = TRUE,
                                               !.breakdown_type = breakdown]
                            ELSE there]
                     /\ SetTM(IF breaks
                              THEN register_vehicle_position(tm, v, there.position,
                                       "tram", there.direction, TRUE)
                              ELSE tm)
               /\ fuel_level' = IF has_moved
                                THEN [fuel_level EXCEPT ![v] = consumed(fuel)]
                                ELSE fuel_level
    /\ UNCHANGED <<maintenance_agents, poolVars>>
    /\ UNCHANGED notDemoVars

\* the ticks of the simulation, without the breakdowns the dashboard triggers
NextFuel ==
    \/ DispatchMaintenance
    \/ UpdateMaintenance
    \/ UpdateVehicle

NextDemo ==
    \/ TriggerBreakdown
    \/ DispatchMaintenance
    \/ UpdateMaintenance
    \/ UpdateVehicle

------------------------------------------------------------------------------
(* Message handling of an agent: BaseTransportAgent.handle_message, and the   *)
(* subscribe_to_messages calls its callers make (PassengerAgent's             *)
(* VehicleNegotiation behaviour, the tests of the subscription system).  The  *)
(* class defines no subscribe_to_messages, no _handle_incoming_message and no *)
(* _log_queue, so the call raises AttributeError and the caller holds no      *)
(* queue; a message is kept as its type.                                      *)

SubscriptionTypes == {"PASSENGER_REQUEST", "VEHICLE_CAPACITY", "BREAKDOWN_ALERT"}

\* how many subscribe_to_messages calls are made
MaxSubscriptions == 2

\* how many messages the agent handles
MaxHandled == 3

SubscribeInit ==
    /\ message_history = <<>>
    /\ subscription_calls = <<>>

\* agent.subscribe_to_messages(message_types): the attribute lookup fails
subscribe_to_messages(message_types) ==
    [types |-> message_types, raised |-> "AttributeError", delivered |-> <<>>]

\* BaseTransportAgent.handle_message: the message is appended to the history
handle_message(history, msg_type) == Append(history, msg_type)

SubscribeToMessages ==
    \E message_types \in (SUBSET SubscriptionTypes) \ {{}} :
        /\ Len(subscription_calls) < MaxSubscriptions
        /\ subscription_calls' = Append(subscription_calls,
                                        subscribe_to_messages(message_types))
        /\ UNCHANGED message_history
        /\ UNCHANGED notSubscribeVars

HandleMessage ==
    \E msg_type \in SubscriptionTypes :
        /\ Len(message_history) < MaxHandled
        /\ message_history' = handle_message(message_history, msg_type)
        /\ UNCHANGED subscription_calls
        /\ UNCHANGED notSubscribeVars

NextSubscribe ==
    \/ SubscribeToMessages
    \/ HandleMessage

------------------------------------------------------------------------------
(* Boarding at a station: one StationAgent (station 1, at CityStations[1]),   *)
(* the vehicles that call at it and the passenger agents that ask a vehicle   *)
(* for a place.  The station's queue is the passenger_queue of the queue      *)
(* component; every waiting passenger is bound for station 2.  A message is   *)
(* appended to the recipient's deque by send_message and popped by the        *)
(* recipient's MessageReceiverBehaviour, one per run, so each inbox is first  *)
(* in, first out.  A passenger agent sends one boarding request: a second     *)
(* one takes a rejection handled by handle_booking_confirmation, which is fed *)
(* by PASSENGER_REQUEST messages only, and the vehicle answers with a         *)
(* PASSENGER_RESPONSE.                                                        *)

\* number of vehicles that call at the station
NumFleet == 2

FleetIds == 1..NumFleet

\* how many passengers join the station's queue
MaxQueued == 4

\* how many arrivals at a station the vehicles make
MaxArrivals == 2

\* number of passenger agents (main.py: pass_<i>)
NumPassengerAgents == 1

PassengerAgentIds == {<<k>> : k \in 1..NumPassengerAgents}

\* the cell of this station, and the cell of the station the waiting
\* passengers and the passenger agents are bound for (get_possible_destinations:
\* a station other than this one)
StationCell == CityStations[1]

DestinationCell == CityStations[2]

\* no BOARDING_LIST was handled by the last step
NoBoarding == [handled |-> FALSE, vehicle |-> 0, passengers |-> <<>>,
               onboard_after |-> {}]

\* VehicleAgent.__init__ as the coordinator calls it (no initial passengers);
\* the deques of _local_queues start empty
TransferInit ==
    /\ fleet = [v \in FleetIds |-> [occ |-> 0, onboard |-> EmptyDict]]
    /\ station_inbox = <<>>
    /\ vehicle_inbox = [v \in FleetIds |-> <<>>]
    /\ boarding_requested = {}
    /\ arrivals_sent = 0
    /\ last_boarding = NoBoarding

\* the fields of a vehicle that the boarding handlers read, the vehicle being
\* at this cell
FleetV(v, cell) ==
    [pos |-> cell, onboard |-> fleet[v].onboard, occ |-> fleet[v].occ,
     legacy |-> <<>>, broken |-> FALSE, out |-> {}]

SetFleet(v, r) == fleet' = [fleet EXCEPT ![v] = [occ |-> r.occ, onboard |-> r.onboard]]

\* StationAgent.handle_vehicle_arrived, the "passengers" of its BOARDING_LIST:
\* the id and the destination (as a station id) of each passenger popped
boarding_entries(ids) ==
    [i \in DOMAIN ids |->
        [id |-> ids[i],
         destination |-> station_id_at_position(DestinationCell)]]

\* StationAgent.add_passenger_to_queue
TransferAddPassenger ==
    /\ passengers_created < MaxQueued
    /\ passenger_queue' = queue_add_passenger(passenger_queue, now,
                                              current_tick, passengers_created)
    /\ passengers_created' = passengers_created + 1
    /\ last_arrival' = NoArrival
    /\ last_boarding' = NoBoarding
    /\ UNCHANGED <<current_tick, now>>
    /\ UNCHANGED <<fleet, station_inbox, vehicle_inbox, boarding_requested, arrivals_sent>>
    /\ UNCHANGED notTransferVars

\* VehicleAgent._on_arrival_to_station at this station or at station 2: the
\* passengers bound for the station alight, then VEHICLE_ARRIVED goes to the
\* station.  Station 2 has nobody waiting in these runs, and a station with an
\* empty queue returns from handle_vehicle_arrived without a reply.
FleetArrival ==
    \E v \in FleetIds, cell \in {StationCell, DestinationCell} :
        LET a == alight_passengers_at_station(FleetV(v, cell))
            arrived == CHOOSE m \in send_vehicle_arrived_message(
                                        [a EXCEPT !.out = {}]).out : TRUE
        IN /\ arrivals_sent < MaxArrivals
           /\ arrivals_sent' = arrivals_sent + 1
           /\ SetFleet(v, a)
           /\ station_inbox' =
                  IF cell = StationCell
                  THEN Append(station_inbox,
                              [vehicle |-> v, capacity |-> arrived.info[1],
                               occupancy |-> arrived.info[2]])
                  ELSE station_inbox
           /\ last_boarding' = NoBoarding
           /\ last_arrival' = NoArrival
           /\ UNCHANGED <<passenger_queue, current_tick, now, passengers_created>>
           /\ UNCHANGED <<vehicle_inbox, boarding_requested>>
           /\ UNCHANGED notTransferVars

\* StationAgent.handle_message on the oldest VEHICLE_ARRIVED of the station's
\* queue: handle_vehicle_arrived
TransferHandleVehicleArrived ==
    /\ station_inbox # <<>>
    /\ LET msg == Head(station_inbox)
           reply == boarding_list(passenger_queue, msg.capacity, msg.occupancy)
       IN /\ passenger_queue' = queue_handle_vehicle_arrived(
                                    passenger_queue, msg.capacity, msg.occupancy)
          /\ vehicle_inbox' =
                 IF reply.sent
                 THEN [vehicle_inbox EXCEPT ![msg.vehicle] =
                          Append(@, [type |-> "BOARDING_LIST",
                                     passenger_id |-> <<>>,
                                     passengers |-> boarding_entries(reply.passengers)])]
                 ELSE vehicle_inbox
          /\ last_arrival' =
                 [handled |-> TRUE, capacity |-> msg.capacity,
                  occupancy |-> msg.occupancy,
                  queue_before |-> passenger_queue,
                  queue_after |-> passenger_queue',
                  sent |-> reply.sent, passengers |-> reply.passengers]
    /\ station_inbox' = Tail(station_inbox)
    /\ last_boarding' = NoBoarding
    /\ UNCHANGED <<current_tick, now, passengers_created>>
    /\ UNCHANGED <<fleet, boarding_requested, arrivals_sent>>
    /\ UNCHANGED notTransferVars

\* PassengerAgent.request_boarding: the boarding request goes to the vehicle
\* the passenger chose
RequestBoarding ==
    \E p \in PassengerAgentIds \ boarding_requested, v \in FleetIds :
        /\ boarding_requested' = boarding_requested \cup {p}
        /\ vehicle_inbox' = [vehicle_inbox EXCEPT ![v] =
               Append(@, [type |-> "PASSENGER_REQUEST", passenger_id |-> p,
                          passengers |-> <<>>])]
        /\ last_boarding' = NoBoarding
        /\ last_arrival' = NoArrival
        /\ UNCHANGED <<passenger_queue, current_tick, now, passengers_created>>
        /\ UNCHANGED <<fleet, station_inbox, arrivals_sent>>
        /\ UNCHANGED notTransferVars

\* VehicleAgent.handle_message on the oldest message of the vehicle's queue, a
\* BOARDING_LIST: handle_boarding_list
FleetHandleBoardingList ==
    \E v \in FleetIds :
        /\ vehicle_inbox[v] # <<>>
        /\ Head(vehicle_inbox[v]).type = "BOARDING_LIST"
        /\ LET body == Head(vehicle_inbox[v]).passengers
               r == handle_boarding_list(FleetV(v, StationCell), body)
           IN /\ SetFleet(v, r)
              /\ last_boarding' =
                     [handled |-> TRUE, vehicle |-> v,
                      passengers |-> [i \in DOMAIN body |-> body[i].id],
                      onboard_after |-> DOMAIN r.onboard]
        /\ vehicle_inbox' = [vehicle_inbox EXCEPT ![v] = Tail(@)]
        /\ last_arrival' = NoArrival
        /\ UNCHANGED <<passenger_queue, current_tick, now, passengers_created>>
        /\ UNCHANGED <<station_inbox, boarding_requested, arrivals_sent>>
        /\ UNCHANGED notTransferVars

\* VehicleAgent.handle_message on the oldest message of the vehicle's queue, a
\* PASSENGER_REQUEST: handle_passenger_request
FleetHandlePassengerRequest ==
    \E v \in FleetIds :
        /\ vehicle_inbox[v] # <<>>
        /\ Head(vehicle_inbox[v]).type = "PASSENGER_REQUEST"
        /\ SetFleet(v, handle_passenger_request(
                           FleetV(v, StationCell),
                           Head(vehicle_inbox[v]).passenger_id,
                           "boarding_request",
                           DestinationCell))
        /\ vehicle_inbox' = [vehicle_inbox EXCEPT ![v] = Tail(@)]
        /\ last_boarding' = NoBoarding
        /\ last_arrival' = NoArrival
        /\ UNCHANGED <<passenger_queue, current_tick, now, passengers_created>>
        /\ UNCHANGED <<station_inbox, boarding_requested, arrivals_sent>>
        /\ UNCHANGED notTransferVars

NextTransfer ==
    \/ TransferAddPassenger
    \/ FleetArrival
    \/ TransferHandleVehicleArrived
    \/ RequestBoarding
    \/ FleetHandleBoardingList
    \/ FleetHandlePassengerRequest

------------------------------------------------------------------------------
(* The tick loops: main_standalone.py, demo.py, VehicleMainBehaviour *)

MaxLoopTicks == 2

NoEntity == "none"

\* StandaloneDashboardServer.update_simulation updates the vehicles, then the
\* stations, then the maintenance agents
StandaloneOrder == <<"vehicle_0", "vehicle_1", "station_0", "maintenance_0">>

\* DemoSimulation.update_simulation goes through the maintenance agents, then
\* the vehicles, then the stations
DemoOrder == <<"demo_maintenance_0", "demo_vehicle_0", "demo_station_0">>

\* every VehicleAgent has a VehicleMainBehaviour of its own
AgentOrder(a) == <<a>>

VehicleAgents == {"agent_vehicle_0", "agent_vehicle_1"}

Loops == {"standalone", "demo"} \cup VehicleAgents

LoopOrder(l) ==
    IF l = "standalone" THEN StandaloneOrder
    ELSE IF l = "demo" THEN DemoOrder
    ELSE AgentOrder(l)

Entities == UNION {{LoopOrder(l)[i] : i \in DOMAIN LoopOrder(l)} : l \in Loops}

LoopInit ==
    /\ loop_ticks = [l \in Loops |-> 0]
    /\ entity_updates = [e \in Entities |-> 0]
    /\ loop_running = Loops
    /\ loop_log = [loop |-> NoEntity, raised_by |-> NoEntity, skipped |-> {}]

\* the entities of a sequence of updates that run when the update of the
\* raiser raises and nothing around that update catches it: those before it
updated_before(order, raiser) ==
    IF raiser = NoEntity
    THEN {order[i] : i \in DOMAIN order}
    ELSE {order[i] : i \in {k \in DOMAIN order :
                               \A j \in 1..k : order[j] # raiser}}

\* one iteration of a loop over the entities of order; raiser is the entity
\* whose update raises in it, if any
run_updates(l, raiser) ==
    LET order == LoopOrder(l)
        done == updated_before(order, raiser)
    IN /\ loop_ticks' = [loop_ticks EXCEPT ![l] = @ + 1]
       /\ entity_updates' = [e \in Entities |->
                                IF e \in done THEN entity_updates[e] + 1
                                              ELSE entity_updates[e]]
       /\ loop_log' = [loop |-> l, raised_by |-> raiser,
                       skipped |-> {order[i] : i \in DOMAIN order} \ done]

Raisers(l) == {LoopOrder(l)[i] : i \in DOMAIN LoopOrder(l)} \cup {NoEntity}

\* StandaloneDashboardServer.update_simulation, one iteration of its while:
\* the try encloses the whole iteration, the except sleeps and the while goes
\* on
StandaloneTick ==
    /\ "standalone" \in loop_running
    /\ loop_ticks["standalone"] < MaxLoopTicks
    /\ \E raiser \in Raisers("standalone") : run_updates("standalone", raiser)
    /\ UNCHANGED loop_running
    /\ UNCHANGED notLoopVars

\* DemoSimulation.simulation_loop, one iteration: update_simulation is called
\* outside any try, so what it raises ends the loop
DemoLoopIteration ==
    /\ "demo" \in loop_running
    /\ loop_ticks["demo"] < MaxLoopTicks
    /\ \E raiser \in Raisers("demo") :
          /\ run_updates("demo", raiser)
          /\ loop_running' = IF raiser = NoEntity THEN loop_running
                                                  ELSE loop_running \ {"demo"}
    /\ UNCHANGED notLoopVars

\* VehicleMainBehaviour.run, one iteration for one agent: the try encloses
\* update_vehicle_state, the except prints and sleeps, the behaviour runs again
VehicleRun ==
    /\ \E a \in VehicleAgents :
          /\ a \in loop_running
          /\ loop_ticks[a] < MaxLoopTicks
          /\ \E raiser \in Raisers(a) : run_updates(a, raiser)
    /\ UNCHANGED loop_running
    /\ UNCHANGED notLoopVars

NextLoops ==
    \/ StandaloneTick
    \/ DemoLoopIteration
    \/ VehicleRun

------------------------------------------------------------------------------
(* Specifications *)

vars == <<poolVars, vehicleVars, stationVars, depotVars, busVars, queueVars, crewVars, demoVars, reportVars, awardVars, subscribeVars, transferVars, loopVars, fuelVars>>

InitExceptQueue == PoolInit /\ VehicleInit /\ StationInit /\ DepotInit /\ BusInit /\ CrewInit /\ DemoInit /\ ReportInit /\ AwardInit /\ SubscribeInit /\ TransferInit /\ LoopInit /\ FuelInit

Init == InitExceptQueue /\ QueueInit

InitPool == Init

SpecPool == InitPool /\ [][NextPool]_vars

InitVehicle == Init

SpecVehicle == InitVehicle /\ [][NextVehicle]_vars

InitLoops == Init /\ passengers = <<>>

SpecLoops == InitLoops /\ [][NextLoops]_vars

InitRecover == Init /\ passengers = <<>>

SpecRecover == InitRecover /\ [][NextRecover]_vars

\* the vehicle of the other components is built without initial passengers
InitCNP == Init /\ passengers = <<>>

SpecCNP == InitCNP /\ [][NextCNP]_vars

InitDeadline == Init /\ passengers = <<>>

\* the task that initiate_cfp creates for collect_proposals runs when its
\* sleep is over
SpecDeadline == InitDeadline /\ [][NextDeadline]_vars /\ WF_vars(CollectProposals)

InitDepot == Init /\ passengers = <<>>

SpecDepot == InitDepot /\ [][NextDepot]_vars

InitBus == Init /\ passengers = <<>>

SpecBus == InitBus /\ [][NextBus]_vars

InitQueue ==
    /\ InitExceptQueue
    /\ passengers = <<>>
    /\ \E start \in QueueStarts : QueueInitFrom(start)

SpecQueue == InitQueue /\ [][NextQueue]_vars

InitCrew == Init /\ passengers = <<>>

SpecCrew == InitCrew /\ [][NextCrew]_vars

\* the behaviours of the crews and of the vehicles are cyclic and all run on
\* one event loop, the receiver of an agent pops every message of its queue,
\* and the task update_state creates runs at the next await
SpecCrewFair ==
    /\ InitCrew
    /\ [][NextCrew]_vars
    /\ WF_vars(HandleBreakdownAlert)
    /\ WF_vars(CrewUpdateState)
    /\ WF_vars(FinishCurrentJob)
    /\ WF_vars(VehicleHandlesCompleted)

InitDemo ==
    /\ PoolInit /\ VehicleInit /\ StationInit /\ BusInit /\ QueueInit /\ CrewInit /\ ReportInit /\ AwardInit /\ SubscribeInit /\ TransferInit /\ LoopInit /\ FuelInit
    /\ DemoDepotInit
    /\ DemoInit
    /\ passengers = <<>>

SpecDemo == InitDemo /\ [][NextDemo]_vars

InitFuel ==
    /\ PoolInit /\ VehicleInit /\ StationInit /\ BusInit /\ QueueInit /\ CrewInit /\ ReportInit /\ AwardInit /\ SubscribeInit /\ TransferInit /\ LoopInit
    /\ LowFuelInit
    /\ DemoDepotInit
    /\ DemoInit
    /\ passengers = <<>>

SpecFuel == InitFuel /\ [][NextFuel]_vars

InitAward == Init /\ passengers = <<>>

SpecAward == InitAward /\ [][NextAward]_vars

InitSubscribe == Init /\ passengers = <<>>

SpecSubscribe == InitSubscribe /\ [][NextSubscribe]_vars

InitTransfer == Init /\ passengers = <<>>

SpecTransfer == InitTransfer /\ [][NextTransfer]_vars

------------------------------------------------------------------------------
(* Claims about the resource pool *)

\* C1: after any sequence of request_resources and release_resources calls
\* with non-negative amounts, 0 <= in_use <= total for tools (8) and for
\* tow hooks (2).
C1_PoolWithinTotals ==
    /\ 0 <= resources_in_use.tools
    /\ resources_in_use.tools <= MaintenanceTools
    /\ 0 <= resources_in_use.tow_hooks
    /\ resources_in_use.tow_hooks <= MaintenanceTowHooks

\* C1 witness: a release of more tools than were in use has been made while
\* some were in use, and a request has filled the tool pool before.
C1_Witness ==
    /\ last_call.op = "release"
    /\ last_call.before.tools > 0
    /\ last_call.tools > last_call.before.tools
    /\ last_call.before.tow_hooks = MaintenanceTowHooks
    /\ resources_in_use.tools = 0

\* C2: request_resources returns true and adds both amounts exactly when
\* both amounts fit the current availability; otherwise it returns false and
\* leaves both in-use counters unchanged.
C2_AtomicRequest ==
    last_call.op = "request" =>
        LET fits == /\ last_call.tools <= MaintenanceTools - last_call.before.tools
                    /\ last_call.tow_hooks <= MaintenanceTowHooks - last_call.before.tow_hooks
        IN /\ last_call.result <=> fits
           /\ last_call.result =>
                 /\ resources_in_use.tools = last_call.before.tools + last_call.tools
                 /\ resources_in_use.tow_hooks = last_call.before.tow_hooks + last_call.tow_hooks
           /\ ~last_call.result => resources_in_use = last_call.before

\* C2 witness: a request whose tools were available but whose tow hooks were
\* not has been refused.
C2_Witness ==
    /\ last_call.op = "request"
    /\ ~last_call.result
    /\ last_call.tools > 0
    /\ last_call.tools <= MaintenanceTools - last_call.before.tools
    /\ last_call.tow_hooks > MaintenanceTowHooks - last_call.before.tow_hooks

------------------------------------------------------------------------------
(* Claims about the vehicle agent *)

\* C3: in every reachable state of a vehicle (any interleaving of
\* BOARDING_LIST handling, passenger boarding requests, alighting and ticks)
\* occupancy <= capacity.
C3_OccupancyWithinCapacity == occupancy <= Capacity

\* C3 witness: a BOARDING_LIST naming two different passengers reached a
\* vehicle with one free place; one was boarded and the loop stopped at the
\* capacity check.
C3_Witness ==
    /\ last_op.kind = "boarding_list"
    /\ Len(last_op.body) = 2
    /\ last_op.body[1].id # last_op.body[2].id
    /\ Cardinality({m \in outbox : m.type = "BOARDING_CONFIRMED"}) = 1
    /\ occupancy = Capacity

\* C4: in every reachable state from construction onward the occupancy
\* counter equals the number of entries of the onboard-passenger set.
C4_OccupancyEqualsOnboard == occupancy = Cardinality(DOMAIN passengers_onboard)

\* C5: in every reachable state, state = BROKEN if and only if the breakdown
\* kind is not none, and if and only if is_broken is true.
C5_BrokenIffBreakdown ==
    /\ (state = "BROKEN") <=> (breakdown_type # "none")
    /\ (state = "BROKEN") <=> is_broken

\* C9: delivering the same BOARDING_LIST a second time, right after the
\* first delivery, leaves the onboard set and the occupancy counter as they
\* were after the first delivery.
C9_BoardingListIdempotent ==
    [][(/\ last_op.kind = "boarding_list"
        /\ last_op'.kind = "boarding_list"
        /\ last_op'.body = last_op.body
        /\ state = "AT_STATION")
       => (/\ passengers_onboard' = passengers_onboard
           /\ occupancy' = occupancy)]_vars

\* C10: a vehicle that handles MAINTENANCE_COMPLETED for its own id while
\* BROKEN leaves BROKEN for AT_STATION if its position is a station cell and
\* for EN_ROUTE otherwise.
C10_RepairRestoresMotionState ==
    (/\ last_op.kind = "maintenance_completed"
     /\ last_op.arg = vehicle_id
     /\ last_op.before_state = "BROKEN")
    => state = (IF current_position \in StationCells THEN "AT_STATION" ELSE "EN_ROUTE")

\* C24: a vehicle leaves BROKEN only by handling a MAINTENANCE_COMPLETED that
\* carries its own id: no tick, no BOARDING_LIST, no pending arrival task, no
\* accepted contract and no MAINTENANCE_COMPLETED for another id changes the
\* state away from BROKEN.
C24_LeavesBrokenOnlyOnOwnCompletion ==
    [][(state = "BROKEN" /\ state' # "BROKEN")
       => (/\ last_op'.kind = "maintenance_completed"
           /\ last_op'.arg = vehicle_id)]_vars

\* C32: a vehicle that is not broken stays AT_STATION for a bounded number of
\* ticks: with or without a BOARDING_LIST, it is EN_ROUTE again once at most
\* MAX_BOARDING_TICKS + 1 update ticks have found it at the station.
C32_BoundedStationStop ==
    /\ last_op.ticks_at_station <= MAX_BOARDING_TICKS + 1
    /\ (state = "AT_STATION" /\ ~is_broken) =>
           last_op.ticks_at_station <= MAX_BOARDING_TICKS

\* the vehicle has left a station on the tick after MAX_BOARDING_TICKS ticks
\* of waiting, no BOARDING_LIST having come
C32_Witness ==
    /\ last_op.kind = "tick"
    /\ last_op.ticks_at_station = MAX_BOARDING_TICKS + 1
    /\ state = "EN_ROUTE"
    /\ ~is_broken
    /\ next_station # current_position
    /\ DOMAIN passengers_onboard = {}

\* C33: when next_station is missing at the start of a tick, the vehicle
\* takes the first station of its route that is not at its position; when
\* there is none, or the route is empty, the vehicle does not move in that
\* tick.  (No path of the tick raises: the empty route returns at once, and
\* the others go on with a next_station.)
C33_RecoversNextStation ==
    [][(next_station = NoStation /\ last_op'.kind = "tick") =>
          LET differing == {i \in DOMAIN assigned_route :
                               assigned_route[i] # current_position}
          IN IF differing # {}
             THEN /\ \E i \in differing :
                        /\ \A k \in differing : i <= k
                        /\ last_op'.body = <<assigned_route[i]>>
                  /\ next_station' # NoStation
             ELSE current_position' = current_position]_vars

\* a tick has recovered a next_station that is not the first station of the
\* route, and the vehicle has moved towards it
C33_Witness ==
    /\ last_op.kind = "tick"
    /\ Len(last_op.body) = 1
    /\ Len(assigned_route) = MaxReplacedRoute
    /\ last_op.body[1] = assigned_route[MaxReplacedRoute]
    /\ last_op.body[1] # assigned_route[1]
    /\ next_station = last_op.body[1]
    /\ ~is_broken

\* C36: a vehicle that has handled the ACCEPT of a contract has been diverted
\* (it is EN_ROUTE to the requesting station) and has sent one execution
\* report (CONTRACT_NET_INFORM) in that step
C36_AcceptIsExecuted ==
    last_op.kind = "contract_accept" =>
        /\ state = "EN_ROUTE"
        /\ Cardinality({m \in outbox : m.type = "CONTRACT_NET_INFORM"}) = 1

------------------------------------------------------------------------------
(* Claims about the Contract Net negotiation *)

\* how many messages of this type the initiator has sent to this participant
\* for this contract
SentCount(type, to, contract_id) ==
    Cardinality({i \in DOMAIN cnp_sent :
                    /\ cnp_sent[i].type = type
                    /\ cnp_sent[i].to = to
                    /\ cnp_sent[i].contract_id = contract_id})

\* the participants whose proposal the contract holds
Proposers(contract_id) ==
    {active_contracts[contract_id].proposals[i].sender :
        i \in DOMAIN active_contracts[contract_id].proposals}

\* C6: for every contract that resolves as AWARDED, exactly one participant
\* is sent ACCEPT, that participant submitted a proposal, every other
\* participant that submitted a proposal is sent exactly one REJECT, and no
\* participant is sent both ACCEPT and REJECT for the contract.
C6_AwardedContractReplies ==
    \A c \in DOMAIN active_contracts :
        active_contracts[c].status = "awarded" =>
            /\ \E w \in ParticipantJids :
                  /\ SentCount("ACCEPT", w, c) = 1
                  /\ w \in Proposers(c)
                  /\ \A p \in ParticipantJids \ {w} : SentCount("ACCEPT", p, c) = 0
                  /\ \A p \in Proposers(c) \ {w} : SentCount("REJECT", p, c) = 1
            /\ \A p \in ParticipantJids :
                  ~(SentCount("ACCEPT", p, c) > 0 /\ SentCount("REJECT", p, c) > 0)

\* C7: a contract whose deadline is reached with zero proposals collected has
\* status FAILED, and no ACCEPT and no REJECT is sent for it, at the deadline
\* or at any later time.
C7_NoProposalsFails ==
    \A c \in DOMAIN active_contracts :
        active_contracts[c].collected = 0 =>
            /\ active_contracts[c].status = "failed"
            /\ \A i \in DOMAIN cnp_sent : cnp_sent[i].contract_id # c

\* a contract failed for want of proposals, and later received a proposal
C7_Witness ==
    \E c \in DOMAIN active_contracts :
        /\ active_contracts[c].collected = 0
        /\ active_contracts[c].status = "failed"
        /\ active_contracts[c].proposals # <<>>

\* C8: a station has at most one OPEN (cfp_sent) contract at any time.
C8_OneOpenNegotiation ==
    Cardinality({c \in DOMAIN active_contracts :
                    active_contracts[c].status = "cfp_sent"}) <= 1

\* the contract is closed: its status is AWARDED or FAILED
Terminal(contract_info) == contract_info.status \in {"awarded", "failed"}

\* C21: a contract's status only moves OPEN -> AWARDED or OPEN -> FAILED, and
\* both are terminal: once AWARDED or FAILED the status and the winner never
\* change again, also when proposals for the contract arrive after the
\* deadline or the winner's execution report arrives.
C21_StatusTerminal ==
    [][\A c \in DOMAIN active_contracts :
          /\ c \in DOMAIN active_contracts'
          /\ active_contracts'[c].status # active_contracts[c].status
                => /\ active_contracts[c].status = "cfp_sent"
                   /\ Terminal(active_contracts'[c])
          /\ Terminal(active_contracts[c])
                => active_contracts'[c].winner = active_contracts[c].winner]_vars

\* a contract was awarded, a proposal for it came in after the deadline and
\* the winner's execution report has been handled
C21_Witness ==
    \E c \in DOMAIN active_contracts :
        /\ active_contracts[c].status = "awarded"
        /\ Len(active_contracts[c].proposals) > active_contracts[c].collected
        /\ c \in reports_handled

\* C22: at the deadline of a contract with at least one proposal, the winner
\* is the proposal with the highest score, and among proposals with equal
\* highest score the one received first wins, also when a participant
\* re-submits a proposal for the same contract.
C22_HighestScoreFirstReceived ==
    (award_closed /\ award_proposals # <<>>) =>
        \E w \in DOMAIN award_proposals :
            /\ award_proposals[w].sender = award_winner
            /\ \A i \in DOMAIN award_proposals :
                  LET mine == calculate_proposal_score(award_proposals[w], award_task)
                      other == calculate_proposal_score(award_proposals[i], award_task)
                  IN /\ other <= mine
                     /\ other = mine =>
                           award_proposals[w].received <= award_proposals[i].received

------------------------------------------------------------------------------
(* Claims about the depots *)

\* C18: park succeeds only if the depot's parked count is below its
\* max_vehicles, so after any sequence of park and deploy calls the parked
\* count of each depot is at most its max_vehicles (bus 15, tram 10,
\* maintenance 3).
C18_DepotWithinCapacity ==
    /\ \A b \in BaseTypes : Cardinality(agents_at_base[b]) <= max_vehicles(b)
    /\ (last_park.op = "park" /\ last_park.result) => ~last_park.was_full

\* a registered agent was refused at the full maintenance depot
C18_Witness ==
    /\ last_park.op = "park"
    /\ last_park.was_full
    /\ ~last_park.result
    /\ Cardinality(agents_at_base["maintenance"]) = MaintenanceDepotMaxVehicles
    /\ agent_registry \ agents_at_base["maintenance"] # {}

------------------------------------------------------------------------------
(* Claims about the mailboxes *)

IsPrefix(s, t) == Len(s) <= Len(t) /\ \A i \in 1..Len(s) : s[i] = t[i]

\* C16: the messages addressed to one recipient are received in exactly the
\* order they were sent, receive returning the oldest undelivered message of
\* the inbox, for any interleaving of sends from several senders with
\* receives: what a recipient has received is an initial part of what was
\* sent to it, in send order.
C16_FifoPerRecipient ==
    \A jid \in Jids :
        /\ IsPrefix(bus_received[jid], message_log[jid])
        /\ IsPrefix(local_received[jid], local_sent[jid])

\* C17: a send to a recipient id that was never registered drops the message,
\* creates no inbox for that id and changes no other inbox.
C17_UnregisteredSendDropped ==
    [][(next_msg_id' # next_msg_id /\ ~last_send'.registered)
          => /\ message_queues' = message_queues
             /\ local_queues' = local_queues]_vars

------------------------------------------------------------------------------
(* Claims about the station passenger queue *)

\* C13: a queued passenger whose wait exceeds its patience deadline is
\* removed by the patience sweep even if no vehicle ever arrives: a passenger
\* enqueued at tick t with patience 15 is no longer in the queue at tick
\* t + 16, so no passenger of the queue has waited more than 15 ticks.
C13_ImpatientRemoved ==
    \A i \in 1..Len(passenger_queue) :
        current_tick - passenger_queue[i].arrival_tick <= patience_time

\* C19: in every reachable state of a station the passenger queue holds at
\* most max_queue_size (100) passengers and no passenger id twice.
C19_QueueBoundedNoDuplicates ==
    /\ Len(passenger_queue) <= max_queue_size
    /\ \A i, j \in 1..Len(passenger_queue) :
          passenger_queue[i].id = passenger_queue[j].id => i = j

\* a passenger has arrived after a boarding, at a queue length an earlier
\* passenger of the queue had found too
C19_Witness ==
    \E i, j \in 1..Len(passenger_queue) :
        /\ i < j
        /\ passenger_queue[i].id[1] = passenger_queue[j].id[1]

------------------------------------------------------------------------------
(* Claims about the maintenance crews *)

\* the crew has been dispatched: it has left IDLE for a job it still holds
Dispatched(crew) == crew.current_job # NoJob

\* C11: a crew is dispatched to a broken vehicle only if the maintenance base
\* granted, at that dispatch, the full amount its breakdown kind requires
\* (tire 2 tools, engine 5 tools, tow 1 tow hook): a dispatched crew holds
\* that amount, and the base counts what the dispatched crews hold as in use.
C11_DispatchedHoldsGrant ==
    /\ \A c \in CrewIds :
          Dispatched(crews[c]) =>
             /\ crews[c].allocated_resources.tools =
                   tools_needed(crews[c].current_job.breakdown_type)
             /\ crews[c].allocated_resources.tow_hooks =
                   tow_hooks_needed(crews[c].current_job.breakdown_type)
    /\ \A c \in CrewIds :
          Dispatched(crews[c]) =>
             /\ resources_in_use.tools >=
                   tools_needed(crews[c].current_job.breakdown_type)
             /\ resources_in_use.tow_hooks >=
                   tow_hooks_needed(crews[c].current_job.breakdown_type)

\* C12: for a vehicle whose breakdown kind is tow the crew enters the towing
\* sub-mode on reaching the vehicle, before any repair: a crew that has
\* reached the vehicle of a tow job and works on it is towing.
C12_TowBeforeRepair ==
    \A c \in CrewIds :
        (crews[c].state = "repairing" /\ crews[c].current_job.breakdown_type = "tow")
           => crews[c].towing_vehicle

\* C20: for each breakdown at most one crew ever accepts it, under any
\* interleaving of the crews' alert handling with each other and with the
\* completion of the job by the crew that answered first.
C20_OneCrewPerBreakdown ==
    \A a, b \in accepted :
        (a.vehicle_id = b.vehicle_id /\ a.breakdown_no = b.breakdown_no)
           => a.crew = b.crew

------------------------------------------------------------------------------
(* Claims about the traffic manager of the mock simulation *)

\* a tram registered at the cell as broken down
BrokenTramAt(cell) ==
    \E v \in DOMAIN position_occupancy[cell] :
        /\ position_occupancy[cell][v].type = "tram"
        /\ position_occupancy[cell][v].broken

\* C14: a rail cell is in the blocked set exactly while at least one
\* broken-down tram is registered at it, also when two trams at the cell are
\* broken and only one of them is repaired.
C14_BlockedIffBrokenTram ==
    \A cell \in Cells : (cell \in blocked_rails) <=> BrokenTramAt(cell)

\* C15: no two distinct trams registered at the same cell have direction
\* vectors with a positive dot product.
C15_NoSameDirectionTrams ==
    \A cell \in Cells :
        \A v, w \in DOMAIN position_occupancy[cell] :
            (/\ v # w
             /\ position_occupancy[cell][v].type = "tram"
             /\ position_occupancy[cell][w].type = "tram")
               => position_occupancy[cell][v].direction *
                     position_occupancy[cell][w].direction <= 0

\* the crew holds a job for this breakdown of this vehicle
HoldsJob(crew, vid, b) ==
    \/ crew.current_job.vehicle_id = vid /\ crew.current_job.breakdown_no = b
    \/ \E i \in DOMAIN crew.job_queue :
          crew.job_queue[i].vehicle_id = vid /\ crew.job_queue[i].breakdown_no = b

CrewTransitions ==
    {<<"idle", "en_route">>, <<"en_route", "repairing">>,
     <<"repairing", "returning_to_base">>, <<"returning_to_base", "idle">>}

C28_TakesHighestPriority ==
    [][\A c \in CrewIds :
          /\ \A i, j \in DOMAIN crews'[c].job_queue :
                i < j => crews'[c].job_queue[i].priority >=
                         crews'[c].job_queue[j].priority
          /\ (crews[c].current_job = NoJob /\ crews'[c].current_job # NoJob) =>
                \A i \in DOMAIN crews[c].job_queue :
                    crews'[c].current_job.priority >= crews[c].job_queue[i].priority]_vars

\* C29: a crew that finds its target vehicle no longer broken when it arrives
\* cancels the job: it does not start the repair and sends no
\* MAINTENANCE_COMPLETED, drops the job and returns to the base.
C29_CancelsWhenNotBroken ==
    [][\A c \in CrewIds :
          LET job == crews[c].current_job
              arrives == /\ crews[c].state = "en_route"
                         /\ current_position_of(crews, base_position, c) = job.position
                         /\ crews'[c] # crews[c]
          IN (arrives /\ ~broken_vehicles[job.vehicle_id].is_broken) =>
                /\ crews'[c].state = "returning_to_base"
                /\ crews'[c].current_job = NoJob
                /\ completed_sent' = completed_sent]_vars

------------------------------------------------------------------------------
(* Claims about the message handling of an agent *)

\* C23: a message handled by an agent is delivered exactly once to every
\* subscription whose type list contains the message's type, and to no
\* subscription whose list does not contain it.
C23_DeliveredOncePerSubscription ==
    \A k \in DOMAIN subscription_calls :
        \A i \in DOMAIN message_history :
            LET copies == Cardinality({d \in DOMAIN subscription_calls[k].delivered :
                              subscription_calls[k].delivered[d] = i})
            IN copies = (IF message_history[i] \in subscription_calls[k].types
                         THEN 1 ELSE 0)

------------------------------------------------------------------------------
(* Claims about the resources of the mock simulation *)

RECURSIVE HeldBy(_, _)
\* the sum of one resource over the crews that currently have a job
HeldBy(cs, resource) ==
    IF cs = {}
    THEN 0
    ELSE LET c == CHOOSE x \in cs : TRUE
         IN (IF maintenance_agents[c].target_vehicle # NoTarget
             THEN maintenance_agents[c][resource] ELSE 0)
            + HeldBy(cs \ {c}, resource)

------------------------------------------------------------------------------
(* Claims about the boarding at a station *)

\* the ids of the passengers waiting in the station's queue
Queued == {passenger_queue[i].id : i \in DOMAIN passenger_queue}

\* the ids in the passengers_onboard of a vehicle
Onboard(v) == DOMAIN fleet[v].onboard

\* C31: a passenger record has one holder at a time: no passenger id is in
\* the station's queue and in a vehicle's passengers_onboard at once, and none
\* is in the passengers_onboard of two vehicles.
C31_OneHolder ==
    /\ \A v \in FleetIds : Queued \cap Onboard(v) = {}
    /\ \A v, w \in FleetIds : v # w => Onboard(v) \cap Onboard(w) = {}

\* passengers of the queue have boarded two different vehicles while another
\* one is still waiting
C31_Witness ==
    /\ Queued # {}
    /\ \A v \in FleetIds : \E p \in Onboard(v) : p \notin PassengerAgentIds

\* C38: no passenger is lost between the station and the vehicle: once a
\* vehicle has handled a BOARDING_LIST, every passenger the station put in
\* the list is in the vehicle's passengers_onboard.
C38_ListedAreOnboard ==
    last_boarding.handled =>
        \A i \in DOMAIN last_boarding.passengers :
            last_boarding.passengers[i] \in last_boarding.onboard_after

------------------------------------------------------------------------------
(* Claims about the repair of a broken vehicle *)

\* C37: every vehicle that breaks down and sends its BREAKDOWN_ALERT to the
\* crews is eventually repaired: it handles a MAINTENANCE_COMPLETED and is no
\* longer broken
C37_EveryBreakdownIsRepaired ==
    \A v \in CrewVehicleIds :
        broken_vehicles[v].is_broken ~> ~broken_vehicles[v].is_broken

------------------------------------------------------------------------------
(* Claims about the deadline of a contract *)

\* C35: every contract that is initiated eventually leaves OPEN (cfp_sent),
\* whatever proposals were received for it, malformed ones included
C35_EveryContractLeavesOpen ==
    \A c \in 1..(MaxContracts + 1) :
        (c \in DOMAIN active_contracts)
            ~> (c \in DOMAIN active_contracts /\ active_contracts[c].status # "cfp_sent")

------------------------------------------------------------------------------
(* Claims about the tick loops *)

\* C34: when the update of one entity raises in an iteration of a tick loop,
\* that entity alone is left out of the iteration and the loop goes on
C34_OnlyTheRaiserIsSkipped ==
    loop_log.raised_by # NoEntity =>
        /\ loop_log.skipped = {loop_log.raised_by}
        /\ loop_log.loop \in loop_running

------------------------------------------------------------------------------
(* Claims about the traffic registry and the fuel of the mock simulation *)

\* the cells whose position_occupancy holds the vehicle
RegisteredCells(v) == {cell \in Cells : v \in DOMAIN position_occupancy[cell]}

\* C39: every vehicle is registered at one cell at most, and a vehicle on the
\* grid is registered at its current position
C39_RegisteredWhereItIs ==
    \A v \in TramIds :
        /\ Cardinality(RegisteredCells(v)) <= 1
        /\ demo_vehicles[v].state = "active" =>
               RegisteredCells(v) = {demo_vehicles[v].position}

\* C40: no vehicle that is not broken stands on the grid with fuel 0: a
\* vehicle whose fuel is low reaches the entry of its depot with fuel left,
\* parks and is refuelled
C40_NoVehicleRunsDry ==
    \A v \in TramIds :
        ~(/\ demo_vehicles[v].state = "active"
          /\ ~demo_vehicles[v].is_broken
          /\ fuel_level[v] = 0)

====
